---- MODULE Spec2Model ----
\* Verification model of the real-time control engine:
\*   src/muscle_click.py      MuscleClickDetector (gesture classifier)
\*   src/mems_mouse_mode.py   MemsMouseMode, GyroMouseOnlineMode, GyroMouseMode
\*
\* Conventions
\*   time        integer milliseconds (time.time() * 1000); the clock starts at
\*               StartTime, a value larger than every interval of the program,
\*               as the epoch clock of time.time() is.
\*   amplitudes  integer microvolts (the value after the source's "* 1e6").
\*   floats      fixed point, rounded to the nearest unit (see the controllers).
\*   pyautogui   a call is recorded in a log variable; it returns normally.
EXTENDS Integers, Naturals, Sequences, FiniteSets, TLC

VARIABLES
    clock,            \* time.time(), non-decreasing
    active,           \* which object this run exercises (the objects share no state)
    config,           \* MuscleClickDetector.config
    last_click_ts,    \* MuscleClickDetector._last_click_ts
    is_dragging,      \* MuscleClickDetector._is_dragging
    muscle_buffer,    \* MuscleClickDetector._muscle_buffer
    emitted,          \* log of the pyautogui button calls: <<[act, ts]>>
    call,             \* the last classification call: its input, pre-state and actions
    scen,             \* progress of the observed calls through the scenario
    raises,           \* how many pyautogui calls of the detector have raised
    mems,             \* the fields of a MemsMouseMode
    online,           \* the fields of a GyroMouseOnlineMode
    gyro,             \* the fields of a GyroMouseMode
    mcall,            \* the last update_mems call: its branch, inputs and moveRel call
    accepted,         \* the calibration samples a controller was given, in order
    mon,              \* the observed packets: their number and the stillness run
    dash,             \* the fields of a CallibriDashboard and its packet deliveries
    backend           \* the backend's database, its clock and its requests in progress

clickVars ==
    <<config, last_click_ts, is_dragging, muscle_buffer, emitted, call, scen, raises>>

motionVars == <<mems, online, gyro, mcall, accepted, mon>>

vars == <<clock, active, clickVars, motionVars, dash, backend>>

\* ---------------------------------------------------------------- helpers

Abs(x) == IF x < 0 THEN -x ELSE x

Max2(a, b) == IF a >= b THEN a ELSE b

RECURSIVE MaxAbs(_)
\* max(abs(s) for s in samples) of a non-empty sequence
MaxAbs(s) ==
    IF Len(s) = 1 THEN Abs(s[1]) ELSE Max2(Abs(s[1]), MaxAbs(Tail(s)))

\* ---------------------------------------------------------------- bounds

\* the clock runs from StartTime to StartTime + Horizon
Horizon == 600

\* number of button actions logged before the model stops classifying
MaxActions == 3

\* number of non-empty signal batches classified
MaxSignals == 3

\* a controller run lasts one stillness timeout (where the controller has one)
\* and MotionHorizon ms
MotionHorizon == 30

\* ---------------------------------------------------------------- time

cooldown_ms == 500

StartTime == 2 * cooldown_ms

\* ---------------------------------------------------------------- MuscleClickConfig

\* the dataclass defaults
MuscleClickConfig ==
    [left_threshold |-> 150, right_threshold |-> 250, hold_threshold |-> 225,
     cooldown_sec |-> cooldown_ms, use_duration_detection |-> TRUE]

\* the threshold triples (left, right, hold) a detector is given: the dataclass
\* defaults, the dashboard's fallback triple and a triple with hold above right
ThresholdTriples ==
    { <<MuscleClickConfig.left_threshold, MuscleClickConfig.right_threshold,
        MuscleClickConfig.hold_threshold>>,
      <<550, 220, 825>>,
      <<150, 250, 825>> }

\* the configurations a detector is constructed with: every triple in duration
\* mode, and one triple in impulse mode and with no cooldown
Configs ==
    { [left_threshold |-> t[1], right_threshold |-> t[2], hold_threshold |-> t[3],
       cooldown_sec |-> cooldown_ms, use_duration_detection |-> TRUE] :
        t \in ThresholdTriples }
    \cup { [left_threshold |-> 150, right_threshold |-> 250, hold_threshold |-> 825,
            cooldown_sec |-> cooldown_ms, use_duration_detection |-> FALSE],
           [left_threshold |-> 150, right_threshold |-> 250, hold_threshold |-> 825,
            cooldown_sec |-> 0, use_duration_detection |-> TRUE] }

\* amplitudes delivered by the sensor, in microvolts
Amplitudes == {100, 230, 300, 826}

\* CallibriSignalData batches: a sequence of packs, each a sequence of samples
SignalBatches ==
    {<<>>, << <<100>> >>, << <<-230>> >>, << <<>>, <<100, -300>> >>,
     << <<826, 100>>, <<>> >>}

\* CallibriEnvelopeData batches: a sequence of samples
EnvelopeBatches == {<<>>, <<100>>, <<-230, 100>>}

\* ---------------------------------------------------------------- MuscleClickDetector

\* the outcome of one handler run: the detector fields it may write, the pyautogui
\* calls it made, in order, and the test that ended it ("fired": an action was
\* emitted, "cooldown": the cooldown test failed, "below": no threshold was met)
Handled(ts, drag, acts, why) ==
    [last_click_ts |-> ts, is_dragging |-> drag, acts |-> acts, why |-> why]

\* _handle_duration_based_click with the early returns removed: every rule is tried
handle_duration_fallthrough(cfg, ts, drag, max_sample, now) ==
    LET h1 == IF max_sample >= cfg.hold_threshold /\ now - ts >= cfg.cooldown_sec
              THEN Handled(now, ~drag, <<IF drag THEN "DragEnd" ELSE "DragStart">>, "fired")
              ELSE Handled(ts, drag, <<>>, "below")
        h2 == IF max_sample >= cfg.right_threshold
                 /\ now - h1.last_click_ts >= cfg.cooldown_sec
              THEN Handled(now, h1.is_dragging, Append(h1.acts, "RightClick"), "fired")
              ELSE h1
    IN IF max_sample >= cfg.left_threshold /\ now - h2.last_click_ts >= cfg.cooldown_sec
       THEN Handled(now, h2.is_dragging, Append(h2.acts, "LeftClick"), "fired")
       ELSE h2

\* _handle_duration_based_click with the right-click rule never gated by the cooldown
handle_duration_no_cooldown(cfg, ts, drag, max_sample, now) ==
    IF max_sample >= cfg.hold_threshold THEN
        IF now - ts >= cfg.cooldown_sec THEN
            IF ~drag THEN Handled(now, TRUE, <<"DragStart">>, "fired")
            ELSE Handled(now, FALSE, <<"DragEnd">>, "fired")
        ELSE Handled(ts, drag, <<>>, "cooldown")
    ELSE IF max_sample >= cfg.right_threshold THEN
        Handled(now, drag, <<"RightClick">>, "fired")
    ELSE IF max_sample >= cfg.left_threshold THEN
        IF now - ts >= cfg.cooldown_sec THEN Handled(now, drag, <<"LeftClick">>, "fired")
        ELSE Handled(ts, drag, <<>>, "cooldown")
    ELSE Handled(ts, drag, <<>>, "below")

\* _handle_duration_based_click that presses the button again instead of releasing it
handle_duration_no_release(cfg, ts, drag, max_sample, now) ==
    IF max_sample >= cfg.hold_threshold THEN
        IF now - ts >= cfg.cooldown_sec THEN Handled(now, TRUE, <<"DragStart">>, "fired")
        ELSE Handled(ts, drag, <<>>, "cooldown")
    ELSE IF max_sample >= cfg.right_threshold THEN
        IF now - ts >= cfg.cooldown_sec THEN Handled(now, drag, <<"RightClick">>, "fired")
        ELSE Handled(ts, drag, <<>>, "cooldown")
    ELSE IF max_sample >= cfg.left_threshold THEN
        IF now - ts >= cfg.cooldown_sec THEN Handled(now, drag, <<"LeftClick">>, "fired")
        ELSE Handled(ts, drag, <<>>, "cooldown")
    ELSE Handled(ts, drag, <<>>, "below")

\* _handle_duration_based_click with the right-click rule tried before the hold rule
handle_duration_right_first(cfg, ts, drag, max_sample, now) ==
    IF max_sample >= cfg.right_threshold THEN
        IF now - ts >= cfg.cooldown_sec THEN Handled(now, drag, <<"RightClick">>, "fired")
        ELSE Handled(ts, drag, <<>>, "cooldown")
    ELSE IF max_sample >= cfg.hold_threshold THEN
        IF now - ts >= cfg.cooldown_sec THEN
            IF ~drag THEN Handled(now, TRUE, <<"DragStart">>, "fired")
            ELSE Handled(now, FALSE, <<"DragEnd">>, "fired")
        ELSE Handled(ts, drag, <<>>, "cooldown")
    ELSE IF max_sample >= cfg.left_threshold THEN
        IF now - ts >= cfg.cooldown_sec THEN Handled(now, drag, <<"LeftClick">>, "fired")
        ELSE Handled(ts, drag, <<>>, "cooldown")
    ELSE Handled(ts, drag, <<>>, "below")

\* _handle_duration_based_click with the test of the dragging flag inverted
handle_duration_inverted_drag(cfg, ts, drag, max_sample, now) ==
    IF max_sample >= cfg.hold_threshold THEN
        IF now - ts >= cfg.cooldown_sec THEN
            IF drag THEN Handled(now, TRUE, <<"DragStart">>, "fired")
            ELSE Handled(now, FALSE, <<"DragEnd">>, "fired")
        ELSE Handled(ts, drag, <<>>, "cooldown")
    ELSE IF max_sample >= cfg.right_threshold THEN
        IF now - ts >= cfg.cooldown_sec THEN Handled(now, drag, <<"RightClick">>, "fired")
        ELSE Handled(ts, drag, <<>>, "cooldown")
    ELSE IF max_sample >= cfg.left_threshold THEN
        IF now - ts >= cfg.cooldown_sec THEN Handled(now, drag, <<"LeftClick">>, "fired")
        ELSE Handled(ts, drag, <<>>, "cooldown")
    ELSE Handled(ts, drag, <<>>, "below")

\* the duration handler testing the left threshold before the right one
handle_duration_left_first(cfg, ts, drag, max_sample, now) ==
    IF max_sample >= cfg.hold_threshold THEN
        IF now - ts >= cfg.cooldown_sec THEN
            IF ~drag THEN Handled(now, TRUE, <<"DragStart">>, "fired")
            ELSE Handled(now, FALSE, <<"DragEnd">>, "fired")
        ELSE Handled(ts, drag, <<>>, "cooldown")
    ELSE IF max_sample >= cfg.left_threshold THEN
        IF now - ts >= cfg.cooldown_sec THEN Handled(now, drag, <<"LeftClick">>, "fired")
        ELSE Handled(ts, drag, <<>>, "cooldown")
    ELSE IF max_sample >= cfg.right_threshold THEN
        IF now - ts >= cfg.cooldown_sec THEN Handled(now, drag, <<"RightClick">>, "fired")
        ELSE Handled(ts, drag, <<>>, "cooldown")
    ELSE Handled(ts, drag, <<>>, "below")

handle_duration_based_click(cfg, ts, drag, max_sample, now) ==
    IF max_sample >= cfg.hold_threshold THEN
        IF now - ts >= cfg.cooldown_sec THEN
            IF ~drag THEN Handled(now, TRUE, <<"DragStart">>, "fired")
            ELSE Handled(now, FALSE, <<"DragEnd">>, "fired")
        ELSE Handled(ts, drag, <<>>, "cooldown")
    ELSE IF max_sample >= cfg.right_threshold THEN
        IF now - ts >= cfg.cooldown_sec THEN Handled(now, drag, <<"RightClick">>, "fired")
        ELSE Handled(ts, drag, <<>>, "cooldown")
    ELSE IF max_sample >= cfg.left_threshold THEN
        IF now - ts >= cfg.cooldown_sec THEN Handled(now, drag, <<"LeftClick">>, "fired")
        ELSE Handled(ts, drag, <<>>, "cooldown")
    ELSE Handled(ts, drag, <<>>, "below")

\* the impulse handler testing the left threshold before the right one
handle_simple_click_left_first(cfg, ts, drag, max_sample, now) ==
    IF now - ts < cfg.cooldown_sec /\ max_sample >= cfg.left_threshold
    THEN Handled(ts, drag, <<>>, "cooldown")
    ELSE IF max_sample >= cfg.left_threshold THEN Handled(now, drag, <<"LeftClick">>, "fired")
    ELSE IF max_sample >= cfg.right_threshold
    THEN Handled(now, drag, <<"RightClick">>, "fired")
    ELSE Handled(ts, drag, <<>>, "below")

handle_simple_click(cfg, ts, drag, max_sample, now) ==
    IF max_sample >= cfg.right_threshold THEN
        IF now - ts >= cfg.cooldown_sec THEN Handled(now, drag, <<"RightClick">>, "fired")
        ELSE Handled(ts, drag, <<>>, "cooldown")
    ELSE IF max_sample >= cfg.left_threshold THEN
        IF now - ts >= cfg.cooldown_sec THEN Handled(now, drag, <<"LeftClick">>, "fired")
        ELSE Handled(ts, drag, <<>>, "cooldown")
    ELSE Handled(ts, drag, <<>>, "below")

RECURSIVE signal_max(_, _)
\* the loop of update_from_signal over the packs, starting from max_sample
signal_max(data, max_sample) ==
    IF data = <<>> THEN max_sample
    ELSE IF data[1] = <<>> THEN signal_max(Tail(data), max_sample)
    ELSE signal_max(Tail(data), Max2(max_sample, MaxAbs(data[1])))

\* a full _muscle_buffer that drops the new amplitude instead of the oldest
buffer_push_newest_dropped(buf, v) ==
    IF Len(buf) + 1 > 10 THEN buf ELSE Append(buf, v)

\* _muscle_buffer after append and eviction
buffer_push(buf, v) ==
    IF Len(buf) + 1 > 10 THEN Tail(Append(buf, v)) ELSE Append(buf, v)

Stamp(acts, now) == [i \in 1..Len(acts) |-> [act |-> acts[i], ts |-> now]]

\* the record of one call; it is cleared when the clock or the thresholds move on,
\* so clock and config are the call's now and configuration while it stands
CallRecord(op, amp, h) ==
    [op |-> op, amp |-> amp, pre_ts |-> last_click_ts, pre_drag |-> is_dragging,
     acts |-> h.acts, why |-> h.why]

NoCall ==
    [op |-> "none", amp |-> 0, pre_ts |-> 0, pre_drag |-> FALSE, acts |-> <<>>,
     why |-> "below"]

\* ---- the scenario monitor: amplitudes 100, 826, 100 at samples 0.1 s apart
ScenarioAmps == <<100, 826, 100>>

\* 0.1 s between the samples of the scenario, a fifth of its cooldown
ScenarioGap == cooldown_ms \div 5

ScenarioConfig ==
    [left_threshold |-> 150, right_threshold |-> 250, hold_threshold |-> 825,
     cooldown_sec |-> cooldown_ms, use_duration_detection |-> TRUE]

ScenOff == [pos |-> 4, ts |-> 0, acts |-> <<>>, why |-> <<>>]

ScenStart == [pos |-> 0, ts |-> 0, acts |-> <<>>, why |-> <<>>]

\* the monitor follows the calls of a fresh detector while they are the scenario's
ScenStep(s, amp, now, h) ==
    IF /\ s.pos < 3
       /\ config = ScenarioConfig
       /\ amp = ScenarioAmps[s.pos + 1]
       /\ (s.pos = 0 \/ now = s.ts + ScenarioGap)
    THEN [pos |-> s.pos + 1, ts |-> now, acts |-> Append(s.acts, h.acts),
          why |-> Append(s.why, h.why)]
    ELSE ScenOff

\* the pyautogui call of a handler raises, with the flag written all the same
pyautogui_raises_after_flip(h, drag, ok) ==
    IF ok \/ h.acts = <<>> THEN h
    ELSE Handled(h.last_click_ts, h.is_dragging, <<>>, "raised")

\* the pyautogui call of a handler either returns or raises: a handler writes
\* _last_click_ts before the call and _is_dragging after it, so a raise leaves the
\* timestamp written, the flag as it was and no action performed
pyautogui_outcome(h, drag, ok) ==
    IF ok \/ h.acts = <<>> THEN h
    ELSE Handled(h.last_click_ts, drag, <<>>, "raised")

\* the operation a call is recorded under
OpOf(op, r) ==
    IF r.why # "raised" THEN op
    ELSE IF op = "signal" THEN "signal_raised" ELSE "envelope_raised"

\* what update_from_signal does to the detector
signal_step(data, ok) ==
    /\ Len(emitted) + raises < MaxActions
    /\ active = "click" => Len(muscle_buffer) < MaxSignals
    /\ IF data = <<>> THEN UNCHANGED clickVars
       ELSE
         LET max_sample == signal_max(data, 0)
             now == clock
         IN \E h \in {IF config.use_duration_detection
                       THEN handle_duration_based_click(config, last_click_ts,
                                                        is_dragging, max_sample, now)
                       ELSE handle_simple_click(config, last_click_ts, is_dragging,
                                                max_sample, now)} :
            \E r \in {pyautogui_outcome(h, is_dragging, ok)} :
            /\ muscle_buffer' = buffer_push(muscle_buffer, max_sample)
            /\ last_click_ts' = r.last_click_ts
            /\ is_dragging' = r.is_dragging
            /\ emitted' = emitted \o Stamp(r.acts, now)
            /\ call' = CallRecord(OpOf("signal", r), max_sample, h)
            /\ raises' = IF r.why = "raised" THEN raises + 1 ELSE raises
            /\ scen' = IF r.why = "raised" THEN ScenOff
                       ELSE ScenStep(scen, max_sample, now, h)
            /\ UNCHANGED config

update_from_signal(data, ok) ==
    /\ active = "click"
    /\ signal_step(data, ok)
    /\ UNCHANGED <<clock, active, backend, motionVars, dash>>

\* update_from_envelope after the batch maximum is taken
envelope_click(cfg, ts, drag, value, now) ==
    IF value < cfg.left_threshold THEN Handled(ts, drag, <<>>, "below")
    ELSE IF now - ts < cfg.cooldown_sec THEN Handled(ts, drag, <<>>, "cooldown")
    ELSE Handled(now, drag, <<"LeftClick">>, "fired")

update_from_envelope(data, ok) ==
    /\ active = "click"
    /\ Len(emitted) + raises < MaxActions
    /\ IF data = <<>> THEN UNCHANGED vars
       ELSE
         LET value == MaxAbs(data)
             now == clock
         IN \E h \in {envelope_click(config, last_click_ts, is_dragging, value, now)} :
            \E r \in {pyautogui_outcome(h, is_dragging, ok)} :
            /\ last_click_ts' = r.last_click_ts
            /\ is_dragging' = r.is_dragging
            /\ emitted' = emitted \o Stamp(r.acts, now)
            /\ call' = CallRecord(OpOf("envelope", r), value, h)
            /\ raises' = IF r.why = "raised" THEN raises + 1 ELSE raises
            /\ scen' = ScenOff
            /\ UNCHANGED <<clock, active, backend, config, muscle_buffer, motionVars, dash>>

\* ---------------------------------------------------------------- fixed point

\* a / b rounded to the nearest integer, halves away from zero (b > 0)
RoundDiv(a, b) ==
    IF a >= 0 THEN (2 * a + b) \div (2 * b) ELSE -((2 * (-a) + b) \div (2 * b))

Sign(x) == IF x > 0 THEN 1 ELSE IF x < 0 THEN -1 ELSE 0

\* a / b in fixed point: rounded to the nearest unit, except that a nonzero
\* quotient is never rounded to zero (a float product or quotient of nonzero
\* values in the model's range is nonzero)
Quot(a, b) == LET r == RoundDiv(a, b) IN IF r = 0 THEN Sign(a) ELSE r

\* x * num / den: the product of a float with the constant num/den
Scale(x, num, den) == Quot(x * num, den)

\* (1 - a) * v + a * x with a = alpha / den
Blend(v, x, alpha, den) == Quot((den - alpha) * v + alpha * x, den)

RECURSIVE RootSearch(_, _, _, _)
\* the largest r in lo..hi with r^k <= n (k = 2 or 5), by bisection
RootSearch(n, k, lo, hi) ==
    IF lo >= hi THEN lo
    ELSE LET mid == (lo + hi + 1) \div 2
             p == IF k = 2 THEN mid * mid ELSE mid * mid * mid * mid * mid
         IN IF p <= n THEN RootSearch(n, k, mid, hi) ELSE RootSearch(n, k, lo, mid - 1)

\* floor(sqrt(n)) for 0 <= n < 2^30
ISqrt(n) == RootSearch(n, 2, 0, 32767)

\* floor(n^(1/5)) for 0 <= n < 2^30
IRoot5(n) == RootSearch(n, 5, 0, 63)

\* the step clamp: each axis limited to +-max_step
Clamp(px, max_step) ==
    IF px > max_step THEN max_step ELSE IF px < -max_step THEN -max_step ELSE px

\* pyautogui.moveRel is called unless both axes are zero; <<>> is "no call"
MoveRel(dx_px, dy_px) == IF dx_px # 0 \/ dy_px # 0 THEN <<dx_px, dy_px>> ELSE <<>>

\* ---------------------------------------------------------------- MEMS packets

\* One MEMSData element: the Accelerometer and Gyroscope points (when the SDK
\* object has them) and the names of the channels holding NaN or Infinity; the
\* number stored for such a channel is a placeholder the model never reads.
Element(acc, gyr, nonfinite) ==
    [has_acc |-> TRUE, acc |-> acc, has_gyr |-> TRUE, gyr |-> gyr, nonfinite |-> nonfinite]

NoGyroscope(acc) ==
    [has_acc |-> TRUE, acc |-> acc, has_gyr |-> FALSE, gyr |-> <<0, 0, 0>>,
     nonfinite |-> {}]

NoAccelerometer(gyr) ==
    [has_acc |-> FALSE, acc |-> <<0, 0, 0>>, has_gyr |-> TRUE, gyr |-> gyr,
     nonfinite |-> {}]

\* the outcome of one update_mems run: the controller state after it, the branch
\* that ended it, the deviation from the baseline it computed and the velocity it
\* started from (both in the order of the velocity axes), the moveRel call
\* (<<dx_px, dy_px>>, or <<>> for none) and whether the velocity axes were swapped
\* on their way to the screen axes
Outcome(s, stage, dev, pre_v, moved) ==
    [s |-> s, stage |-> stage, dev |-> dev, pre_v |-> pre_v, moved |-> moved,
     swapped |-> FALSE]

\* ---------------------------------------------------------------- GyroMouseOnlineMode
\* fixed point: angular rates in 0.001 deg/s, pixels in 0.001 px, time in ms

\* number of calibration samples N (neutral_samples)
NeutralSamples == 2

GyroMouseOnlineConfig ==
    [sensitivity_x |-> 8, sensitivity_y |-> 8, neutral_samples |-> NeutralSamples,
     update_interval_sec |-> 4, deadzone_deg |-> 2000, max_step_px |-> 50000,
     smooth_alpha |-> 80, center_eps_deg |-> 1000, recenter_alpha |-> 2,
     still_eps_deg |-> 500, still_timeout_sec |-> 100,
     emg_threshold |-> 5000, emg_smooth_alpha |-> 40]

GyroMouseOnlineMode_init ==
    [neutral_gx |-> 0, neutral_gz |-> 0, accum_gx |-> 0, accum_gz |-> 0,
     accum_count |-> 0, vx |-> 0, vy |-> 0, last_update_ts |-> 0, last_gx |-> 0,
     last_gz |-> 0, still_since |-> 0, last_gyro_time |-> 0, emg_smooth |-> 0,
     emg_active |-> FALSE]

\* the velocity after a multiplicative brake and the snap to zero below the floor
Brake(v, num, den, floor) ==
    LET b == Scale(v, num, den) IN IF Abs(b) < floor THEN 0 ELSE b

\* a centring brake that leaves the velocity as it is
center_brake_none == <<1, 1, 0>>

\* the brakes <<num, den, floor>> of the gyroscope controllers: velocity * num /
\* den, snapped to 0 below floor (in 0.001 deg/s)
OnlineStillBrake == <<5, 100, 10>>

OnlineCenterBrake == <<2, 100, 10>>

GyroStillBrake == <<2, 10, 100>>

GyroCenterBrake == <<2, 10, 100>>

BrakeBy(v, b) == Brake(v, b[1], b[2], b[3])

\* the step clamp left out on the x axis
online_shape_unclamped(c, s, dx_deg, dy_deg, pre_v) ==
    LET dx == IF Abs(dx_deg) < c.deadzone_deg THEN 0 ELSE dx_deg
        dy == IF Abs(dy_deg) < c.deadzone_deg THEN 0 ELSE dy_deg
        vx == Scale(Blend(s.vx, dx, c.smooth_alpha, 100), 95, 100)
        vy == Scale(Blend(s.vy, dy, c.smooth_alpha, 100), 95, 100)
        dx_px == -vx * c.sensitivity_x
        dy_px == Clamp(-vy * c.sensitivity_y, c.max_step_px)
    IN Outcome([s EXCEPT !.vx = vx, !.vy = vy], "shaped", <<dx_deg, dy_deg>>, pre_v,
               MoveRel(dx_px, dy_px))

\* the dead zone left out
online_shape_no_deadzone(c, s, dx_deg, dy_deg, pre_v) ==
    LET vx == Scale(Blend(s.vx, dx_deg, c.smooth_alpha, 100), 95, 100)
        vy == Scale(Blend(s.vy, dy_deg, c.smooth_alpha, 100), 95, 100)
        dx_px == Clamp(-vx * c.sensitivity_x, c.max_step_px)
        dy_px == Clamp(-vy * c.sensitivity_y, c.max_step_px)
    IN Outcome([s EXCEPT !.vx = vx, !.vy = vy], "shaped", <<dx_deg, dy_deg>>, pre_v,
               MoveRel(dx_px, dy_px))

\* the smoothing without the additional factor of lines 441-443
online_shape_plain_average(c, s, dx_deg, dy_deg, pre_v) ==
    LET dx == IF Abs(dx_deg) < c.deadzone_deg THEN 0 ELSE dx_deg
        dy == IF Abs(dy_deg) < c.deadzone_deg THEN 0 ELSE dy_deg
        vx == Blend(s.vx, dx, c.smooth_alpha, 100)
        vy == Blend(s.vy, dy, c.smooth_alpha, 100)
        dx_px == Clamp(-vx * c.sensitivity_x, c.max_step_px)
        dy_px == Clamp(-vy * c.sensitivity_y, c.max_step_px)
    IN Outcome([s EXCEPT !.vx = vx, !.vy = vy], "shaped", <<dx_deg, dy_deg>>, pre_v,
               MoveRel(dx_px, dy_px))

\* lines 431-463: dead zone, smoothing, mapping, clamp, moveRel
online_shape(c, s, dx_deg, dy_deg, pre_v) ==
    LET dx == IF Abs(dx_deg) < c.deadzone_deg THEN 0 ELSE dx_deg
        dy == IF Abs(dy_deg) < c.deadzone_deg THEN 0 ELSE dy_deg
        vx == Scale(Blend(s.vx, dx, c.smooth_alpha, 100), 95, 100)
        vy == Scale(Blend(s.vy, dy, c.smooth_alpha, 100), 95, 100)
        dx_px == Clamp(-vx * c.sensitivity_x, c.max_step_px)
        dy_px == Clamp(-vy * c.sensitivity_y, c.max_step_px)
    IN Outcome([s EXCEPT !.vx = vx, !.vy = vy], "shaped", <<dx_deg, dy_deg>>, pre_v,
               MoveRel(dx_px, dy_px))

\* the rate limit storing the time of the packet it drops
online_locked_rate_stamps(c, s, gx, gz, now) ==
    LET pre_v == <<s.vx, s.vy>> IN
    IF now - s.last_update_ts < c.update_interval_sec
    THEN Outcome([s EXCEPT !.last_update_ts = now], "rate", <<0, 0>>, pre_v, <<>>)
    ELSE
    LET s1 == [s EXCEPT !.last_update_ts = now] IN
    IF /\ s1.last_gyro_time > 0
       /\ now - s1.last_gyro_time < 10
       /\ (Abs(gx - s1.last_gx) > 5000 \/ Abs(gz - s1.last_gz) > 5000)
    THEN Outcome([s1 EXCEPT !.last_gyro_time = now], "fast", <<0, 0>>, pre_v, <<>>)
    ELSE
    LET s2 == [s1 EXCEPT !.last_gyro_time = now]
        dx_deg == gz - s2.neutral_gz
        dy_deg == gx - s2.neutral_gx
        dev == <<dx_deg, dy_deg>>
        still == /\ Abs(gx - s2.last_gx) < c.still_eps_deg
                 /\ Abs(gz - s2.last_gz) < c.still_eps_deg
    IN
    IF still /\ s2.still_since # 0 /\ now - s2.still_since >= c.still_timeout_sec
    THEN Outcome([s2 EXCEPT !.vx = BrakeBy(@, OnlineStillBrake),
                            !.vy = BrakeBy(@, OnlineStillBrake),
                            !.last_gx = gx, !.last_gz = gz],
                 "still", dev, pre_v, <<>>)
    ELSE
    LET s3 == [s2 EXCEPT !.still_since = IF still THEN (IF @ = 0 THEN now ELSE @) ELSE 0,
                         !.last_gx = gx, !.last_gz = gz]
    IN
    IF Abs(dx_deg) < c.center_eps_deg /\ Abs(dy_deg) < c.center_eps_deg
    THEN Outcome([s3 EXCEPT !.vx = BrakeBy(@, OnlineCenterBrake),
                            !.vy = BrakeBy(@, OnlineCenterBrake)],
                 "center", dev, pre_v, <<>>)
    ELSE online_shape(c, s3, dx_deg, dy_deg, pre_v)

\* the rate limit letting a packet through after half the interval
online_locked_half_interval(c, s, gx, gz, now) ==
    LET pre_v == <<s.vx, s.vy>> IN
    IF 2 * (now - s.last_update_ts) < c.update_interval_sec
    THEN Outcome(s, "rate", <<0, 0>>, pre_v, <<>>)
    ELSE
    LET s1 == [s EXCEPT !.last_update_ts = now] IN
    IF /\ s1.last_gyro_time > 0
       /\ now - s1.last_gyro_time < 10
       /\ (Abs(gx - s1.last_gx) > 5000 \/ Abs(gz - s1.last_gz) > 5000)
    THEN Outcome([s1 EXCEPT !.last_gyro_time = now], "fast", <<0, 0>>, pre_v, <<>>)
    ELSE
    LET s2 == [s1 EXCEPT !.last_gyro_time = now]
        dx_deg == gz - s2.neutral_gz
        dy_deg == gx - s2.neutral_gx
        dev == <<dx_deg, dy_deg>>
        still == /\ Abs(gx - s2.last_gx) < c.still_eps_deg
                 /\ Abs(gz - s2.last_gz) < c.still_eps_deg
    IN
    IF still /\ s2.still_since # 0 /\ now - s2.still_since >= c.still_timeout_sec
    THEN Outcome([s2 EXCEPT !.vx = BrakeBy(@, OnlineStillBrake),
                            !.vy = BrakeBy(@, OnlineStillBrake),
                            !.last_gx = gx, !.last_gz = gz],
                 "still", dev, pre_v, <<>>)
    ELSE
    LET s3 == [s2 EXCEPT !.still_since = IF still THEN (IF @ = 0 THEN now ELSE @) ELSE 0,
                         !.last_gx = gx, !.last_gz = gz]
    IN
    IF Abs(dx_deg) < c.center_eps_deg /\ Abs(dy_deg) < c.center_eps_deg
    THEN Outcome([s3 EXCEPT !.vx = BrakeBy(@, OnlineCenterBrake),
                            !.vy = BrakeBy(@, OnlineCenterBrake)],
                 "center", dev, pre_v, <<>>)
    ELSE online_shape(c, s3, dx_deg, dy_deg, pre_v)

\* lines 368-429: rate limit, fast-change filter, stillness gate, centering gate
\* the stillness brake on the first still sample, without the timer
online_locked_untimed(c, s, gx, gz, now) ==
    LET pre_v == <<s.vx, s.vy>> IN
    IF now - s.last_update_ts < c.update_interval_sec
    THEN Outcome(s, "rate", <<0, 0>>, pre_v, <<>>)
    ELSE
    LET s1 == [s EXCEPT !.last_update_ts = now] IN
    IF /\ s1.last_gyro_time > 0
       /\ now - s1.last_gyro_time < 10
       /\ (Abs(gx - s1.last_gx) > 5000 \/ Abs(gz - s1.last_gz) > 5000)
    THEN Outcome([s1 EXCEPT !.last_gyro_time = now], "fast", <<0, 0>>, pre_v, <<>>)
    ELSE
    LET s2 == [s1 EXCEPT !.last_gyro_time = now]
        dx_deg == gz - s2.neutral_gz
        dy_deg == gx - s2.neutral_gx
        dev == <<dx_deg, dy_deg>>
        still == /\ Abs(gx - s2.last_gx) < c.still_eps_deg
                 /\ Abs(gz - s2.last_gz) < c.still_eps_deg
    IN
    IF still
    THEN Outcome([s2 EXCEPT !.vx = BrakeBy(@, OnlineStillBrake),
                            !.vy = BrakeBy(@, OnlineStillBrake),
                            !.last_gx = gx, !.last_gz = gz],
                 "still", dev, pre_v, <<>>)
    ELSE
    LET s3 == [s2 EXCEPT !.still_since = IF still THEN (IF @ = 0 THEN now ELSE @) ELSE 0,
                         !.last_gx = gx, !.last_gz = gz]
    IN
    IF Abs(dx_deg) < c.center_eps_deg /\ Abs(dy_deg) < c.center_eps_deg
    THEN Outcome([s3 EXCEPT !.vx = BrakeBy(@, OnlineCenterBrake),
                            !.vy = BrakeBy(@, OnlineCenterBrake)],
                 "center", dev, pre_v, <<>>)
    ELSE online_shape(c, s3, dx_deg, dy_deg, pre_v)

\* the EMG gate of lines 386-388 switched on
online_locked_emg_gated(c, s, gx, gz, now) ==
    LET pre_v == <<s.vx, s.vy>> IN
    IF now - s.last_update_ts < c.update_interval_sec
    THEN Outcome(s, "rate", <<0, 0>>, pre_v, <<>>)
    ELSE
    LET s1 == [s EXCEPT !.last_update_ts = now] IN
    IF /\ s1.last_gyro_time > 0
       /\ now - s1.last_gyro_time < 10
       /\ (Abs(gx - s1.last_gx) > 5000 \/ Abs(gz - s1.last_gz) > 5000)
    THEN Outcome([s1 EXCEPT !.last_gyro_time = now], "fast", <<0, 0>>, pre_v, <<>>)
    ELSE
    LET s2 == [s1 EXCEPT !.last_gyro_time = now]
        dx_deg == gz - s2.neutral_gz
        dy_deg == gx - s2.neutral_gx
        dev == <<dx_deg, dy_deg>>
        still == /\ Abs(gx - s2.last_gx) < c.still_eps_deg
                 /\ Abs(gz - s2.last_gz) < c.still_eps_deg
    IN
    IF ~s2.emg_active THEN Outcome(s2, "gated", <<0, 0>>, pre_v, <<>>)
    ELSE
    IF still /\ s2.still_since # 0 /\ now - s2.still_since >= c.still_timeout_sec
    THEN Outcome([s2 EXCEPT !.vx = BrakeBy(@, OnlineStillBrake),
                            !.vy = BrakeBy(@, OnlineStillBrake),
                            !.last_gx = gx, !.last_gz = gz],
                 "still", dev, pre_v, <<>>)
    ELSE
    LET s3 == [s2 EXCEPT !.still_since = IF still THEN (IF @ = 0 THEN now ELSE @) ELSE 0,
                         !.last_gx = gx, !.last_gz = gz]
    IN
    IF Abs(dx_deg) < c.center_eps_deg /\ Abs(dy_deg) < c.center_eps_deg
    THEN Outcome([s3 EXCEPT !.vx = BrakeBy(@, OnlineCenterBrake),
                            !.vy = BrakeBy(@, OnlineCenterBrake)],
                 "center", dev, pre_v, <<>>)
    ELSE online_shape(c, s3, dx_deg, dy_deg, pre_v)

online_locked(c, s, gx, gz, now) ==
    LET pre_v == <<s.vx, s.vy>> IN
    IF now - s.last_update_ts < c.update_interval_sec
    THEN Outcome(s, "rate", <<0, 0>>, pre_v, <<>>)
    ELSE
    LET s1 == [s EXCEPT !.last_update_ts = now] IN
    IF /\ s1.last_gyro_time > 0
       /\ now - s1.last_gyro_time < 10
       /\ (Abs(gx - s1.last_gx) > 5000 \/ Abs(gz - s1.last_gz) > 5000)
    THEN Outcome([s1 EXCEPT !.last_gyro_time = now], "fast", <<0, 0>>, pre_v, <<>>)
    ELSE
    LET s2 == [s1 EXCEPT !.last_gyro_time = now]
        dx_deg == gz - s2.neutral_gz
        dy_deg == gx - s2.neutral_gx
        dev == <<dx_deg, dy_deg>>
        still == /\ Abs(gx - s2.last_gx) < c.still_eps_deg
                 /\ Abs(gz - s2.last_gz) < c.still_eps_deg
    IN
    IF still /\ s2.still_since # 0 /\ now - s2.still_since >= c.still_timeout_sec
    THEN Outcome([s2 EXCEPT !.vx = BrakeBy(@, OnlineStillBrake),
                            !.vy = BrakeBy(@, OnlineStillBrake),
                            !.last_gx = gx, !.last_gz = gz],
                 "still", dev, pre_v, <<>>)
    ELSE
    LET s3 == [s2 EXCEPT !.still_since = IF still THEN (IF @ = 0 THEN now ELSE @) ELSE 0,
                         !.last_gx = gx, !.last_gz = gz]
    IN
    IF Abs(dx_deg) < c.center_eps_deg /\ Abs(dy_deg) < c.center_eps_deg
    THEN Outcome([s3 EXCEPT !.vx = BrakeBy(@, OnlineCenterBrake),
                            !.vy = BrakeBy(@, OnlineCenterBrake)],
                 "center", dev, pre_v, <<>>)
    ELSE online_shape(c, s3, dx_deg, dy_deg, pre_v)

\* calibration whose baseline is the last sample instead of the mean
gyro_calibrate_last_sample(c, s, gx, gz) ==
    LET s1 == [s EXCEPT !.accum_gx = @ + gx, !.accum_gz = @ + gz, !.accum_count = @ + 1]
    IN IF s1.accum_count = c.neutral_samples
       THEN [s1 EXCEPT !.neutral_gx = gx, !.neutral_gz = gz]
       ELSE s1

\* calibration whose baseline is the sum of the samples instead of their mean
gyro_calibrate_sum(c, s, gx, gz) ==
    LET s1 == [s EXCEPT !.accum_gx = @ + gx, !.accum_gz = @ + gz, !.accum_count = @ + 1]
    IN IF s1.accum_count = c.neutral_samples
       THEN [s1 EXCEPT !.neutral_gx = s1.accum_gx, !.neutral_gz = s1.accum_gz]
       ELSE s1

\* calibration that clears its sums and its count once the baseline is fixed
gyro_calibrate_cleared(c, s, gx, gz) ==
    LET s1 == [s EXCEPT !.accum_gx = @ + gx, !.accum_gz = @ + gz, !.accum_count = @ + 1]
    IN IF s1.accum_count = c.neutral_samples
       THEN [s1 EXCEPT !.neutral_gx = Quot(s1.accum_gx, s1.accum_count),
                       !.neutral_gz = Quot(s1.accum_gz, s1.accum_count),
                       !.accum_gx = 0, !.accum_gz = 0, !.accum_count = 0]
       ELSE s1

\* lines 357-366 and 520-529: one calibration sample, and the lock on the N-th
gyro_calibrate(c, s, gx, gz) ==
    LET s1 == [s EXCEPT !.accum_gx = @ + gx, !.accum_gz = @ + gz, !.accum_count = @ + 1]
    IN IF s1.accum_count = c.neutral_samples
       THEN [s1 EXCEPT !.neutral_gx = Quot(s1.accum_gx, s1.accum_count),
                       !.neutral_gz = Quot(s1.accum_gz, s1.accum_count)]
       ELSE s1

\* what a calibration step reports: "locked" on the step that fixes the baseline
CalibStage(c, s1) == IF s1.accum_count = c.neutral_samples THEN "locked" ELSE "calib"

\* the calibration branch with its return moved under "not yet N": the sample
\* that locks the baseline goes on to be shaped
online_calibration_no_return(c, s, gx, gz, now) ==
    LET s1 == gyro_calibrate(c, s, gx, gz)
    IN IF s1.accum_count = c.neutral_samples
       THEN [online_locked(c, s1, gx, gz, now) EXCEPT !.stage = "locked"]
       ELSE Outcome(s1, "calib", <<0, 0>>, <<s.vx, s.vy>>, <<>>)

\* lines 357-366: the calibration branch, which always returns
online_calibration(c, s, gx, gz, now) ==
    LET s1 == gyro_calibrate(c, s, gx, gz)
    IN Outcome(s1, CalibStage(c, s1), <<0, 0>>, <<s.vx, s.vy>>, <<>>)

\* update_mems reading the first element of the batch
gyro_online_update_mems_first(c, s, data, now) ==
    LET pre_v == <<s.vx, s.vy>> IN
    IF data = <<>> THEN Outcome(s, "empty", <<0, 0>>, pre_v, <<>>)
    ELSE
    LET m == data[1] IN
    IF ~m.has_gyr THEN Outcome(s, "malformed", <<0, 0>>, pre_v, <<>>)
    ELSE IF "gx" \in m.nonfinite \/ "gz" \in m.nonfinite
    THEN Outcome(s, "nonfinite", <<0, 0>>, pre_v, <<>>)
    ELSE
    LET gx == m.gyr[1]
        gz == m.gyr[3]
    IN
    IF s.accum_count < c.neutral_samples
    THEN online_calibration(c, s, gx, gz, now)
    ELSE online_locked(c, s, gx, gz, now)

\* update_mems entering the calibration branch while the count is at most N
gyro_online_update_mems_at_most(c, s, data, now) ==
    LET pre_v == <<s.vx, s.vy>> IN
    IF data = <<>> THEN Outcome(s, "empty", <<0, 0>>, pre_v, <<>>)
    ELSE
    LET m == data[Len(data)] IN
    IF ~m.has_gyr THEN Outcome(s, "malformed", <<0, 0>>, pre_v, <<>>)
    ELSE IF "gx" \in m.nonfinite \/ "gz" \in m.nonfinite
    THEN Outcome(s, "nonfinite", <<0, 0>>, pre_v, <<>>)
    ELSE
    LET gx == m.gyr[1]
        gz == m.gyr[3]
    IN
    IF s.accum_count <= c.neutral_samples
    THEN online_calibration(c, s, gx, gz, now)
    ELSE online_locked(c, s, gx, gz, now)

gyro_online_update_mems(c, s, data, now) ==
    LET pre_v == <<s.vx, s.vy>> IN
    IF data = <<>> THEN Outcome(s, "empty", <<0, 0>>, pre_v, <<>>)
    ELSE
    LET m == data[Len(data)] IN
    IF ~m.has_gyr THEN Outcome(s, "malformed", <<0, 0>>, pre_v, <<>>)
    ELSE IF "gx" \in m.nonfinite \/ "gz" \in m.nonfinite
    THEN Outcome(s, "nonfinite", <<0, 0>>, pre_v, <<>>)
    ELSE
    LET gx == m.gyr[1]
        gz == m.gyr[3]
    IN
    IF s.accum_count < c.neutral_samples
    THEN online_calibration(c, s, gx, gz, now)
    ELSE online_locked(c, s, gx, gz, now)

\* ---------------------------------------------------------------- GyroMouseMode
\* fixed point as for GyroMouseOnlineMode

\* GyroMouseConfig is not part of the source files; its fields are the ones
\* GyroMouseMode reads, with the values of a "smooth" variant: a lower smoothing
\* weight and a longer stillness timeout than the online variant
GyroMouseConfig ==
    [sensitivity_x |-> 8, sensitivity_y |-> 8, neutral_samples |-> NeutralSamples,
     update_interval_sec |-> 4, deadzone_deg |-> 2000, max_step_px |-> 50000,
     smooth_alpha |-> 50, center_eps_deg |-> 1000, recenter_alpha |-> 2,
     still_eps_deg |-> 500, still_timeout_sec |-> 200,
     emg_threshold |-> 5000, emg_smooth_alpha |-> 40]

GyroMouseMode_init ==
    [neutral_gx |-> 0, neutral_gz |-> 0, accum_gx |-> 0, accum_gz |-> 0,
     accum_count |-> 0, vx |-> 0, vy |-> 0, last_update_ts |-> 0, last_gx |-> 0,
     last_gz |-> 0, still_since |-> 0, emg_smooth |-> 0, emg_active |-> FALSE]

\* lines 594-599: sign(val) * |val|^1.6, for val in 0.001 deg/s up to 22 deg/s;
\* the result is in 0.01 units: |val| is taken to 0.1 deg/s and
\* 100 * (t/10)^1.6 = t * (100 * t^3)^(1/5); a nonzero val gives a nonzero result
gyro_joystick_curve(val) ==
    IF val = 0 THEN 0
    ELSE LET t == RoundDiv(Abs(val), 100)
             p == t * IRoot5(100 * t * t * t)
         IN Sign(val) * (IF p = 0 THEN 1 ELSE p)

\* lines 582-619: dead zone, smoothing, response curve, mapping, clamp, moveRel
gyro_shape(c, s, dx_deg, dy_deg, pre_v) ==
    LET dx == IF Abs(dx_deg) < c.deadzone_deg THEN 0 ELSE dx_deg
        dy == IF Abs(dy_deg) < c.deadzone_deg THEN 0 ELSE dy_deg
        vx == Blend(s.vx, dx, c.smooth_alpha, 100)
        vy == Blend(s.vy, dy, c.smooth_alpha, 100)
        dx_px == Clamp(-gyro_joystick_curve(vx) * 10 * c.sensitivity_x, c.max_step_px)
        dy_px == Clamp(-gyro_joystick_curve(vy) * 10 * c.sensitivity_y, c.max_step_px)
    IN Outcome([s EXCEPT !.vx = vx, !.vy = vy], "shaped", <<dx_deg, dy_deg>>, pre_v,
               MoveRel(dx_px, dy_px))

\* lines 531-580: rate limit, stillness gate, centering gate with re-centering
gyro_locked(c, s, gx, gz, now) ==
    LET pre_v == <<s.vx, s.vy>> IN
    IF now - s.last_update_ts < c.update_interval_sec
    THEN Outcome(s, "rate", <<0, 0>>, pre_v, <<>>)
    ELSE
    LET s1 == [s EXCEPT !.last_update_ts = now]
        dx_deg == gz - s1.neutral_gz
        dy_deg == gx - s1.neutral_gx
        dev == <<dx_deg, dy_deg>>
        still == /\ Abs(gx - s1.last_gx) < c.still_eps_deg
                 /\ Abs(gz - s1.last_gz) < c.still_eps_deg
    IN
    IF still /\ s1.still_since # 0 /\ now - s1.still_since >= c.still_timeout_sec
    THEN Outcome([s1 EXCEPT !.vx = BrakeBy(@, GyroStillBrake),
                            !.vy = BrakeBy(@, GyroStillBrake),
                            !.last_gx = gx, !.last_gz = gz],
                 "still", dev, pre_v, <<>>)
    ELSE
    LET s2 == [s1 EXCEPT !.still_since = IF still THEN (IF @ = 0 THEN now ELSE @) ELSE 0,
                         !.last_gx = gx, !.last_gz = gz]
    IN
    IF Abs(dx_deg) < c.center_eps_deg /\ Abs(dy_deg) < c.center_eps_deg
    THEN LET s3 == [s2 EXCEPT !.vx = BrakeBy(@, GyroCenterBrake),
                              !.vy = BrakeBy(@, GyroCenterBrake)]
         IN IF s3.vx = 0 /\ s3.vy = 0
            THEN Outcome([s3 EXCEPT
                            !.neutral_gx = Blend(@, gx, c.recenter_alpha, 1000),
                            !.neutral_gz = Blend(@, gz, c.recenter_alpha, 1000)],
                         "center", dev, pre_v, <<>>)
            ELSE gyro_shape(c, s3, dx_deg, dy_deg, pre_v)
    ELSE gyro_shape(c, s2, dx_deg, dy_deg, pre_v)

gyro_update_mems(c, s, data, now) ==
    LET pre_v == <<s.vx, s.vy>> IN
    IF data = <<>> THEN Outcome(s, "empty", <<0, 0>>, pre_v, <<>>)
    ELSE
    LET m == data[Len(data)] IN
    IF ~m.has_gyr THEN Outcome(s, "malformed", <<0, 0>>, pre_v, <<>>)
    ELSE IF "gx" \in m.nonfinite \/ "gz" \in m.nonfinite
    THEN Outcome(s, "nonfinite", <<0, 0>>, pre_v, <<>>)
    ELSE
    LET gx == m.gyr[1]
        gz == m.gyr[3]
    IN
    IF s.accum_count < c.neutral_samples
    THEN LET s1 == gyro_calibrate(c, s, gx, gz)
         IN Outcome(s1, CalibStage(c, s1), <<0, 0>>, pre_v, <<>>)
    ELSE gyro_locked(c, s, gx, gz, now)

\* ---------------------------------------------------------------- MemsMouseMode
\* fixed point: accelerations in 0.00001 g, gyroscope rates in 0.1 deg/s, pixels in
\* 0.001 px (900 px/g is 9 units of 0.001 px per 0.00001 g), time in ms

MemsMouseConfig ==
    [sensitivity_x |-> 9, sensitivity_y |-> 9, deadzone_g |-> 6000,
     neutral_samples |-> NeutralSamples, update_interval_sec |-> 5,
     max_step_px |-> 40000, smooth_alpha |-> 25, center_window_g |-> 2000,
     recenter_alpha |-> 2, still_eps_g |-> 400, gyro_neutral_eps |-> 60,
     invert_x |-> FALSE, invert_y |-> FALSE, swap_axes |-> FALSE]

\* the same sensor mounted the other way round
MemsMouseConfigSwapped ==
    [MemsMouseConfig EXCEPT !.invert_x = TRUE, !.swap_axes = TRUE]

\* _neutral_gx/gy/gz are None until the lock (set = FALSE); nonfinite names the
\* ones that hold NaN or Infinity
MemsMouseMode_init ==
    [neutral_x |-> 0, neutral_y |-> 0, neutral_z |-> 0, accum_x |-> 0, accum_y |-> 0,
     accum_z |-> 0, accum_count |-> 0, vx_g |-> 0, vy_g |-> 0, last_ax |-> 0,
     last_ay |-> 0,
     neutral_g |-> [set |-> FALSE, gyr |-> <<0, 0, 0>>, nonfinite |-> {}],
     last_update_ts |-> 0]

\* lines 212-219: sign(val) * max(0, |val| - dz)^1.5; in units of 0.00001 g,
\* m^1.5 is m * sqrt(10 * m) / 1000
mems_joystick_curve(val, dz) ==
    IF val = 0 THEN 0
    ELSE LET mag_eff == Max2(0, Abs(val) - dz)
         IN Sign(val) * Quot(mag_eff * ISqrt(10 * mag_eff), 1000)

\* lines 144-155: the gyroscope is within gyro_neutral_eps of the stored neutral;
\* a comparison with NaN or Infinity on either side is false
mems_gyro_near(c, s, gyr, nonfinite) ==
    /\ s.neutral_g.set
    /\ nonfinite \cap {"gx", "gy", "gz"} = {}
    /\ s.neutral_g.nonfinite = {}
    /\ LET dgx == gyr[1] - s.neutral_g.gyr[1]
           dgy == gyr[2] - s.neutral_g.gyr[2]
           dgz == gyr[3] - s.neutral_g.gyr[3]
       IN dgx * dgx + dgy * dgy + dgz * dgz < c.gyro_neutral_eps * c.gyro_neutral_eps

MemsOutcome(c, s, stage, dev, pre_v, moved) ==
    [Outcome(s, stage, dev, pre_v, moved) EXCEPT !.swapped = c.swap_axes]

\* lines 245-277: axis swap and inversion, pixels, clamp, moveRel
mems_emit(c, dx_g, dy_g) ==
    LET sx0 == IF c.swap_axes THEN dy_g ELSE dx_g
        sy0 == IF c.swap_axes THEN dx_g ELSE dy_g
        sx == IF c.invert_x THEN -sx0 ELSE sx0
        sy == IF c.invert_y THEN -sy0 ELSE sy0
        dx_px == Clamp(sx * c.sensitivity_x, c.max_step_px)
        dy_px == Clamp(-sy * c.sensitivity_y, c.max_step_px)
    IN MoveRel(dx_px, dy_px)

\* the shaping without the axis dominance of lines 233-239
mems_shape_both_axes(c, s, ax, ay, pre_v) ==
    LET raw_dx_g == ax - s.neutral_x
        raw_dy_g == ay - s.neutral_y
        near == /\ Abs(raw_dx_g) < c.center_window_g
                /\ Abs(raw_dy_g) < c.center_window_g
        neutral_x == IF near THEN Blend(s.neutral_x, ax, c.recenter_alpha, 1000)
                     ELSE s.neutral_x
        neutral_y == IF near THEN Blend(s.neutral_y, ay, c.recenter_alpha, 1000)
                     ELSE s.neutral_y
        dx1 == ax - neutral_x
        dy1 == ay - neutral_y
        dz == c.deadzone_g
        dx2 == IF Abs(dx1) < dz THEN 0 ELSE dx1
        dy2 == IF Abs(dy1) < dz THEN 0 ELSE dy1
        vx == Blend(s.vx_g, mems_joystick_curve(dx2, dz), c.smooth_alpha, 100)
        vy == Blend(s.vy_g, mems_joystick_curve(dy2, dz), c.smooth_alpha, 100)
        dx_g == vx
        dy_g == vy
    IN MemsOutcome(c, [s EXCEPT !.neutral_x = neutral_x, !.neutral_y = neutral_y,
                                !.vx_g = vx, !.vy_g = vy, !.last_ax = ax, !.last_ay = ay],
                   "shaped", <<raw_dx_g, raw_dy_g>>, pre_v, mems_emit(c, dx_g, dy_g))

\* lines 186-277: deviation, re-centering, dead zone, response curve, smoothing,
\* axis dominance, mapping, clamp, moveRel
mems_shape(c, s, ax, ay, pre_v) ==
    LET raw_dx_g == ax - s.neutral_x
        raw_dy_g == ay - s.neutral_y
        near == /\ Abs(raw_dx_g) < c.center_window_g
                /\ Abs(raw_dy_g) < c.center_window_g
        neutral_x == IF near THEN Blend(s.neutral_x, ax, c.recenter_alpha, 1000)
                     ELSE s.neutral_x
        neutral_y == IF near THEN Blend(s.neutral_y, ay, c.recenter_alpha, 1000)
                     ELSE s.neutral_y
        dx1 == ax - neutral_x
        dy1 == ay - neutral_y
        dz == c.deadzone_g
        dx2 == IF Abs(dx1) < dz THEN 0 ELSE dx1
        dy2 == IF Abs(dy1) < dz THEN 0 ELSE dy1
        vx == Blend(s.vx_g, mems_joystick_curve(dx2, dz), c.smooth_alpha, 100)
        vy == Blend(s.vy_g, mems_joystick_curve(dy2, dz), c.smooth_alpha, 100)
        \* dom_ratio = 1.5
        dx_g == IF 2 * Abs(vx) > 3 * Abs(vy) THEN vx
                ELSE IF 2 * Abs(vy) > 3 * Abs(vx) THEN 0 ELSE vx
        dy_g == IF 2 * Abs(vx) > 3 * Abs(vy) THEN 0 ELSE vy
    IN MemsOutcome(c, [s EXCEPT !.neutral_x = neutral_x, !.neutral_y = neutral_y,
                                !.vx_g = vx, !.vy_g = vy, !.last_ax = ax, !.last_ay = ay],
                   "shaped", <<raw_dx_g, raw_dy_g>>, pre_v, mems_emit(c, dx_g, dy_g))

\* mems_locked with a gyroscope-neutral gate that leaves the velocity as it is
mems_locked_gate_coasting(c, s, ax, ay, gyr, nonfinite, now) ==
    LET pre_v == <<s.vx_g, s.vy_g>>
        dev == <<ax - s.neutral_x, ay - s.neutral_y>>
    IN
    IF now - s.last_update_ts < c.update_interval_sec
    THEN MemsOutcome(c, s, "rate", <<0, 0>>, pre_v, <<>>)
    ELSE
    LET s1 == [s EXCEPT !.last_update_ts = now] IN
    IF mems_gyro_near(c, s1, gyr, nonfinite)
    THEN MemsOutcome(c, [s1 EXCEPT !.last_ax = ax, !.last_ay = ay],
                     "gyro_neutral", dev, pre_v, <<>>)
    ELSE
    IF Abs(ax - s1.last_ax) < c.still_eps_g /\ Abs(ay - s1.last_ay) < c.still_eps_g
    THEN LET floor == c.deadzone_g \div 2
             s2 == [s1 EXCEPT !.vx_g = Brake(@, 3, 10, floor),
                              !.vy_g = Brake(@, 3, 10, floor)]
         IN IF s2.vx_g = 0 /\ s2.vy_g = 0
            THEN MemsOutcome(c, [s2 EXCEPT !.last_ax = ax, !.last_ay = ay],
                             "still", dev, pre_v, <<>>)
            ELSE mems_shape(c, s2, ax, ay, pre_v)
    ELSE mems_shape(c, s1, ax, ay, pre_v)

\* lines 138-185: rate limit, gyroscope-neutral gate, stillness brake
mems_locked(c, s, ax, ay, gyr, nonfinite, now) ==
    LET pre_v == <<s.vx_g, s.vy_g>>
        dev == <<ax - s.neutral_x, ay - s.neutral_y>>
    IN
    IF now - s.last_update_ts < c.update_interval_sec
    THEN MemsOutcome(c, s, "rate", <<0, 0>>, pre_v, <<>>)
    ELSE
    LET s1 == [s EXCEPT !.last_update_ts = now] IN
    IF mems_gyro_near(c, s1, gyr, nonfinite)
    THEN MemsOutcome(c, [s1 EXCEPT !.vx_g = 0, !.vy_g = 0, !.last_ax = ax, !.last_ay = ay],
                     "gyro_neutral", dev, pre_v, <<>>)
    ELSE
    IF Abs(ax - s1.last_ax) < c.still_eps_g /\ Abs(ay - s1.last_ay) < c.still_eps_g
    THEN LET floor == c.deadzone_g \div 2
             s2 == [s1 EXCEPT !.vx_g = Brake(@, 3, 10, floor),
                              !.vy_g = Brake(@, 3, 10, floor)]
         IN IF s2.vx_g = 0 /\ s2.vy_g = 0
            THEN MemsOutcome(c, [s2 EXCEPT !.last_ax = ax, !.last_ay = ay],
                             "still", dev, pre_v, <<>>)
            ELSE mems_shape(c, s2, ax, ay, pre_v)
    ELSE mems_shape(c, s1, ax, ay, pre_v)

\* lines 118-136: one calibration sample; the N-th fixes the neutral acceleration
\* and stores the gyroscope reading of that sample
mems_calibrate(c, s, acc, gyr, nonfinite) ==
    LET s1 == [s EXCEPT !.accum_x = @ + acc[1], !.accum_y = @ + acc[2],
                        !.accum_z = @ + acc[3], !.accum_count = @ + 1]
    IN IF s1.accum_count = c.neutral_samples
       THEN [s1 EXCEPT !.neutral_x = Quot(s1.accum_x, s1.accum_count),
                       !.neutral_y = Quot(s1.accum_y, s1.accum_count),
                       !.neutral_z = Quot(s1.accum_z, s1.accum_count),
                       !.neutral_g = [set |-> TRUE, gyr |-> gyr,
                                      nonfinite |-> nonfinite \cap {"gx", "gy", "gz"}]]
       ELSE s1

mems_update_mems(c, s, data, now) ==
    LET pre_v == <<s.vx_g, s.vy_g>> IN
    IF data = <<>> THEN MemsOutcome(c, s, "empty", <<0, 0>>, pre_v, <<>>)
    ELSE
    LET m == data[Len(data)] IN
    IF ~m.has_acc THEN MemsOutcome(c, s, "malformed", <<0, 0>>, pre_v, <<>>)
    ELSE
    LET gyr == IF m.has_gyr THEN m.gyr ELSE <<0, 0, 0>>
        nonfinite == IF m.has_gyr THEN m.nonfinite ELSE m.nonfinite \ {"gx", "gy", "gz"}
    IN
    IF m.nonfinite \cap {"ax", "ay", "az"} # {}
    THEN MemsOutcome(c, s, "nonfinite", <<0, 0>>, pre_v, <<>>)
    ELSE
    IF s.accum_count < c.neutral_samples
    THEN LET s1 == mems_calibrate(c, s, m.acc, gyr, nonfinite)
         IN MemsOutcome(c, s1, CalibStage(c, s1), <<0, 0>>, pre_v, <<>>)
    ELSE mems_locked(c, s, m.acc[1], m.acc[2], gyr, nonfinite, now)

\* ---------------------------------------------------------------- inputs of the controllers

\* number of update_mems calls of a controller run
MaxPackets == 5

\* gyroscope points (gx, gy, gz) in 0.001 deg/s: the resting rates gx = 1.0 and
\* gz = 2.0 of a sensor with an offset; half a degree per second from there; far
\* out on x; far out the other way
GyroPoints ==
    {<<1000, 0, 2000>>, <<1500, 0, 2400>>, <<10000, 0, 1500>>, <<-10000, 0, -10000>>}

\* the elements a gyroscope controller is given: the points, one with a
\* non-finite z rate, one with a non-finite acceleration and one without a
\* Gyroscope attribute
GyroElements ==
    { Element(<<0, 0, 100000>>, g, {}) : g \in GyroPoints }
    \cup { Element(<<0, 0, 100000>>, <<10000, 0, 0>>, {"gz"}),
           Element(<<0, 0, 100000>>, <<10000, 0, 1500>>, {"ay"}),
           NoGyroscope(<<0, 0, 100000>>) }

\* batches: the empty one, the single elements, and one with two elements
GyroBatches ==
    {<<>>} \cup { <<e>> : e \in GyroElements }
    \cup { << Element(<<0, 0, 100000>>, <<10000, 0, 1500>>, {}),
              Element(<<0, 0, 100000>>, <<1000, 0, 2000>>, {}) >> }

\* the elements MemsMouseMode is given (accelerations in 0.00001 g, gyroscope
\* rates in 0.1 deg/s): level and at rest; tilted by 1 g on x while turning;
\* inside the dead zone on x and tilted on y; inside the centre window; one with
\* a non-finite acceleration, one with a non-finite gyroscope rate, one without
\* Gyroscope, one without Accelerometer
MemsElements ==
    { Element(<<0, 0, 100000>>, <<0, 0, 0>>, {}),
      Element(<<100000, 0, 0>>, <<100, 0, 0>>, {}),
      Element(<<5000, 100000, 100000>>, <<100, 0, 0>>, {}),
      Element(<<1000, -1000, 100000>>, <<100, 0, 0>>, {}),
      Element(<<0, 0, 100000>>, <<0, 0, 0>>, {"ay"}),
      Element(<<0, 0, 100000>>, <<0, 0, 0>>, {"gx"}),
      NoGyroscope(<<0, 0, 100000>>),
      NoAccelerometer(<<0, 0, 0>>) }

MemsBatches ==
    {<<>>} \cup { <<e>> : e \in MemsElements }
    \cup { << Element(<<100000, 0, 0>>, <<100, 0, 0>>, {}),
              Element(<<0, 0, 100000>>, <<0, 0, 0>>, {}) >> }

\* the time since the previous call, in ms: half an update interval, one update
\* interval, and the stillness timeout where the controller has one
Delays(c) == {c.update_interval_sec \div 2, c.update_interval_sec}

GyroDelays(c) == Delays(c) \cup {c.still_timeout_sec}

\* ---------------------------------------------------------------- observation of a run

\* a packet the controller has to process: non-empty, with the reading the
\* controller consumes present and finite
ValidGyro(data) ==
    /\ data # <<>>
    /\ data[Len(data)].has_gyr
    /\ data[Len(data)].nonfinite \cap {"gx", "gz"} = {}

ValidAccel(data) ==
    /\ data # <<>>
    /\ data[Len(data)].has_acc
    /\ data[Len(data)].nonfinite \cap {"ax", "ay", "az"} = {}

\* what a packet is, from its content alone: empty, malformed when its last
\* element lacks the accelerometer or the gyroscope reading, nonfinite when a
\* channel of that element holds NaN or Infinity, ok otherwise
PacketKind(data) ==
    IF data = <<>> THEN "empty"
    ELSE LET m == data[Len(data)]
         IN IF ~m.has_acc \/ ~m.has_gyr THEN "malformed"
            ELSE IF m.nonfinite # {} THEN "nonfinite"
            ELSE "ok"

\* the record of one update_mems call
CallOf(o, data) ==
    [stage |-> o.stage, dev |-> o.dev, pre_v |-> o.pre_v, moved |-> o.moved,
     swapped |-> o.swapped, input |-> PacketKind(data), len |-> Len(data)]

NoMemsCall ==
    [stage |-> "none", dev |-> <<0, 0>>, pre_v |-> <<0, 0>>, moved |-> <<>>,
     swapped |-> FALSE, input |-> "none", len |-> 0]

\* stages in which a valid packet was taken after the lock and past the rate limit
Processed == {"gyro_neutral", "still", "center", "shaped"}

MonInit ==
    [n |-> 0, have_prev |-> FALSE, prev |-> <<0, 0>>, since |-> 0, quiet |-> 0,
     budget |-> 0, changed_at |-> 0, changed_locked |-> FALSE, rest_run |-> TRUE,
     timer |-> 0, timed_out |-> FALSE, sent |-> <<0, 0>>]

\* the number of brake applications that take the velocity v to exactly 0
RECURSIVE BrakeTicks(_, _, _, _)
BrakeTicks(v, num, den, floor) ==
    IF v = 0 THEN 0 ELSE 1 + BrakeTicks(Brake(v, num, den, floor), num, den, floor)

\* The stillness monitor, from the inputs alone: prev is the raw sample of the last
\* processed packet, since the time of the first processed sample of the current
\* run of samples that each changed by less than eps on both axes, quiet the
\* number of samples of the run processed once the run has lasted timeout, and
\* budget the number of applications of the controller's brake (brake = <<num,
\* den, floor>>) that the velocity held when quiet became 1 needs to reach 0;
\* n counts the calls. timer and timed_out are since and quiet >= 1 with the
\* change of the first processed sample taken from (0, 0), the last sample a new
\* controller holds.
MonStep(mo, stage, raw, now, eps, timeout, pre_v, brake) ==
    LET m1 == [mo EXCEPT !.n = @ + 1] IN
    IF stage \notin Processed THEN m1
    ELSE LET quietNow == /\ m1.have_prev
                         /\ Abs(raw[1] - m1.prev[1]) < eps
                         /\ Abs(raw[2] - m1.prev[2]) < eps
             since == IF quietNow THEN (IF m1.since = 0 THEN now ELSE m1.since) ELSE 0
             quiet == IF quietNow /\ now - since >= timeout THEN m1.quiet + 1 ELSE 0
             need == Max2(BrakeTicks(pre_v[1], brake[1], brake[2], brake[3]),
                          BrakeTicks(pre_v[2], brake[1], brake[2], brake[3]))
             timer == IF /\ Abs(raw[1] - m1.prev[1]) < eps
                         /\ Abs(raw[2] - m1.prev[2]) < eps
                      THEN (IF m1.timer = 0 THEN now ELSE m1.timer)
                      ELSE 0
         IN [m1 EXCEPT !.have_prev = TRUE, !.prev = raw, !.since = since,
                       !.quiet = quiet,
                       !.timer = timer,
                       !.timed_out = (timer # 0 /\ now - timer >= timeout),
                       !.budget = IF quiet = 0 THEN 0 ELSE IF quiet = 1 THEN need ELSE @]

\* the resting sample <<gx, gz>> of the gyroscope scenario
RestSample == <<1000, 2000>>

\* rest_run: every valid packet so far carried the resting sample
RestRun(mo, valid, raw) ==
    IF valid /\ raw # RestSample THEN [mo EXCEPT !.rest_run = FALSE] ELSE mo

\* the time of the last call that changed the controller (changed_at, 0 for none)
\* and whether the baseline was locked before that call
Changes(mo, changed, locked, now) ==
    IF changed THEN [mo EXCEPT !.changed_at = now, !.changed_locked = locked] ELSE mo

\* the calibration samples, in arrival order: the first N valid packets, kept
\* until the call after the one that locks the baseline
Accept(log, valid, raw, calibrating) ==
    IF ~calibrating THEN <<>> ELSE IF valid THEN Append(log, raw) ELSE log

\* ---------------------------------------------------------------- neutral_samples = 0

\* a configuration with neutral_samples = 0; the dataclasses and the
\* constructors accept it
Uncalibrated(c) == [c EXCEPT !.neutral_samples = 0]

\* the elements an uncalibrated controller is given: nearly level and nearly at
\* rest, tilted and turning, one with non-finite values, one without Gyroscope
\* and one without Accelerometer
UncalibratedElements ==
    { Element(<<1000, -1000, 100000>>, <<500, 0, 500>>, {}),
      Element(<<100000, 0, 0>>, <<10000, 0, 1500>>, {}),
      Element(<<100000, 0, 0>>, <<10000, 0, 1500>>, {"ax", "gx"}),
      NoGyroscope(<<100000, 0, 0>>),
      NoAccelerometer(<<10000, 0, 1500>>) }

UncalibratedBatches == {<<>>} \cup { <<e>> : e \in UncalibratedElements }

\* update_mems of the controller named by active, built with neutral_samples = 0;
\* accepted lists the valid packets so far
update_mems_uncalibrated(data, d) ==
    /\ active \in {"mems0", "online0", "gyro0"}
    /\ mon.n < MaxPackets
    /\ clock' = clock + d
    /\ \E o \in { CASE active = "mems0" ->
                         mems_update_mems(Uncalibrated(MemsMouseConfig), mems, data, clock')
                    [] active = "online0" ->
                         gyro_online_update_mems(Uncalibrated(GyroMouseOnlineConfig),
                                                 online, data, clock')
                    [] OTHER ->
                         gyro_update_mems(Uncalibrated(GyroMouseConfig), gyro, data,
                                          clock') } :
       LET valid == IF active = "mems0" THEN ValidAccel(data) ELSE ValidGyro(data)
       IN /\ mems' = IF active = "mems0" THEN o.s ELSE mems
          /\ online' = IF active = "online0" THEN o.s ELSE online
          /\ gyro' = IF active = "gyro0" THEN o.s ELSE gyro
          /\ mcall' = CallOf(o, data)
          /\ accepted' = IF valid THEN Append(accepted, data[Len(data)]) ELSE accepted
          /\ mon' = [mon EXCEPT !.n = @ + 1]
          /\ UNCHANGED <<active, backend, clickVars, dash>>

MemsConfigOf(a) == IF a = "mems_swapped" THEN MemsMouseConfigSwapped ELSE MemsMouseConfig

MemsMouseMode_update_mems(data, d) ==
    /\ active \in {"mems", "mems_swapped"}
    /\ mon.n < MaxPackets
    /\ clock + d <= StartTime + MotionHorizon
    /\ clock' = clock + d
    /\ \E o \in {mems_update_mems(MemsConfigOf(active), mems, data, clock')} :
       LET c == MemsConfigOf(active)
           valid == ValidAccel(data)
           raw == IF valid THEN data[Len(data)].acc ELSE <<0, 0, 0>>
       IN /\ mems' = o.s
          /\ mcall' = CallOf(o, data)
          /\ accepted' = Accept(accepted, valid, raw,
                                     mems.accum_count < c.neutral_samples)
          /\ mon' = [Changes(
                 RestRun(MonStep(mon, o.stage, raw, clock', c.still_eps_g, 0, o.pre_v,
                                 <<3, 10, c.deadzone_g \div 2>>), valid, raw),
                 o.s # mems, mems.accum_count >= c.neutral_samples, clock')
                      EXCEPT !.sent = IF data = <<>> THEN @ ELSE data[Len(data)]]
          /\ UNCHANGED <<active, backend, clickVars, online, gyro, dash>>

GyroMouseOnlineMode_update_mems(data, d) ==
    /\ active = "online"
    /\ mon.n < MaxPackets
    /\ clock + d <= StartTime + GyroMouseOnlineConfig.still_timeout_sec + MotionHorizon
    /\ clock' = clock + d
    /\ \E o \in {gyro_online_update_mems(GyroMouseOnlineConfig, online, data, clock')} :
       LET c == GyroMouseOnlineConfig
           valid == ValidGyro(data)
           raw == IF valid THEN <<data[Len(data)].gyr[1], data[Len(data)].gyr[3]>>
                  ELSE <<0, 0>>
       IN /\ online' = o.s
          /\ mcall' = CallOf(o, data)
          /\ accepted' = Accept(accepted, valid, raw,
                                     online.accum_count < c.neutral_samples)
          /\ mon' = Changes(
                 RestRun(MonStep(mon, o.stage, raw, clock', c.still_eps_deg,
                                 c.still_timeout_sec, o.pre_v, OnlineStillBrake),
                         valid, raw),
                 o.s # online, online.accum_count >= c.neutral_samples, clock')
          /\ UNCHANGED <<active, backend, clickVars, mems, gyro, dash>>

\* ---- a sensor that streams without end
\* the rates <<gx, gy, gz>> of a sensor at rest, and after a sudden turn
StreamRest == {<<1000, 0, 2000>>}

StreamTurned == {<<10000, 0, 1500>>, <<-10000, 0, -10000>>, <<1000, 0, 8000>>}

\* the time between two packets, in ms: one update interval, just under the 10 ms
\* of the fast-change filter, and above it
StreamDelays(c) == {c.update_interval_sec, 9, 12}

\* a stored time d ms later, seen from a clock that is held in place: update_mems
\* reads the stored times only in differences with now, each compared with a
\* span below two stillness timeouts, and in tests against 0, so a time is moved
\* back by d, not beyond two stillness timeouts, and 0 stays 0
Back(c, t, d) ==
    IF t = 0 THEN 0 ELSE Max2(t - d, StartTime - 2 * c.still_timeout_sec)

Aged(c, s, d) ==
    [s EXCEPT !.last_update_ts = Back(c, @, d), !.last_gyro_time = Back(c, @, d),
              !.still_since = Back(c, @, d)]

\* update_mems on the next packet of the stream, d ms after the last one; once
\* the sensor has turned, every packet holds the new rates and follows the last
\* one by less than 10 ms; mon.n is the parity of the number of packets
GyroMouseOnlineMode_stream(g, d) ==
    /\ active = "stream"
    /\ IF mon.sent \in {<<t[1], t[3]>> : t \in StreamTurned}
       THEN <<g[1], g[3]>> = mon.sent /\ d < 10
       ELSE TRUE
    /\ \E o \in {gyro_online_update_mems(GyroMouseOnlineConfig,
                                          Aged(GyroMouseOnlineConfig, online, d),
                                          <<Element(<<0, 0, 100000>>, g, {})>>, clock)} :
          /\ online' = o.s
          /\ mcall' = CallOf(o, <<Element(<<0, 0, 100000>>, g, {})>>)
          /\ mon' = [mon EXCEPT !.sent = <<g[1], g[3]>>, !.n = (@ + 1) % 2]
    /\ UNCHANGED <<clock, active, backend, clickVars, mems, gyro, accepted, dash>>

GyroMouseMode_update_mems(data, d) ==
    /\ active = "gyro"
    /\ mon.n < MaxPackets
    /\ clock + d <= StartTime + GyroMouseConfig.still_timeout_sec + MotionHorizon
    /\ clock' = clock + d
    /\ \E o \in {gyro_update_mems(GyroMouseConfig, gyro, data, clock')} :
       LET c == GyroMouseConfig
           valid == ValidGyro(data)
           raw == IF valid THEN <<data[Len(data)].gyr[1], data[Len(data)].gyr[3]>>
                  ELSE <<0, 0>>
       IN /\ gyro' = o.s
          /\ mcall' = CallOf(o, data)
          /\ accepted' = Accept(accepted, valid, raw,
                                     gyro.accum_count < c.neutral_samples)
          /\ mon' = Changes(
                 RestRun(MonStep(mon, o.stage, raw, clock', c.still_eps_deg,
                                 c.still_timeout_sec, o.pre_v, GyroStillBrake),
                         valid, raw),
                 o.s # gyro, gyro.accum_count >= c.neutral_samples, clock')
          /\ UNCHANGED <<active, backend, clickVars, mems, online, dash>>

\* ---------------------------------------------------------------- CallibriDashboard
\* the threshold file, the construction and the four callbacks given to the stream

\* the exception classes a step of a callback raises
Exceptions == {"AttributeError", "ValueError", "RuntimeError", "OSError"}

\* a handler that catches AttributeError only
except_AttributeError(exc) == exc = "AttributeError"

\* except Exception: the handler catches every exception class
except_Exception(exc) == exc \in Exceptions

\* ---- control/threshold_config.json
ThresholdKeys == {"left_threshold", "right_threshold", "hold_threshold"}

Absent == [kind |-> "absent", v |-> 0]

Num(n) == [kind |-> "num", v |-> n]

\* a value that is not a number, such as a string or null
NotNum == [kind |-> "bad", v |-> 0]

Entries == {Absent, Num(300), Num(600), NotNum}

NoObject == [k \in ThresholdKeys |-> Absent]

\* the states of the file: not there, not readable, not JSON, JSON that is not an
\* object, and the objects over the three keys
Files ==
    { [kind |-> k, obj |-> NoObject] :
        k \in {"missing", "unreadable", "invalid", "not_object"} }
    \cup { [kind |-> "object", obj |-> o] : o \in [ThresholdKeys -> Entries] }

\* the literals of _load_saved_thresholds, as (left, right, hold)
FallbackThresholds == <<550, 220, 825>>

Returned(t) == [raised |-> FALSE, thresholds |-> t]

\* an exception of class exc inside the try block of _load_saved_thresholds
LoadRaises(exc) ==
    IF except_Exception(exc) THEN Returned(FallbackThresholds)
    ELSE [raised |-> TRUE, thresholds |-> FallbackThresholds]

load_saved_thresholds(f) ==
    IF f.kind = "missing" THEN Returned(FallbackThresholds)
    ELSE IF f.kind = "unreadable" THEN LoadRaises("OSError")
    ELSE IF f.kind = "invalid" THEN LoadRaises("ValueError")
    ELSE IF f.kind = "not_object" THEN LoadRaises("AttributeError")
    ELSE
    LET get(k, d) == IF f.obj[k].kind = "absent" THEN Num(d) ELSE f.obj[k]
        left == get("left_threshold", 550)
        right == get("right_threshold", 220)
        hold == get("hold_threshold", 825)
    IN IF \E e \in {left, right, hold} : e.kind = "bad" THEN LoadRaises("ValueError")
       ELSE Returned(<<left.v, right.v, hold.v>>)

\* the MuscleClickConfig the dashboard constructs its detector with
DashboardClickConfig(t) ==
    [left_threshold |-> t[1], right_threshold |-> t[2], hold_threshold |-> t[3],
     cooldown_sec |-> cooldown_ms, use_duration_detection |-> TRUE]

\* the GyroMouseOnlineConfig the dashboard constructs its controller with, in the
\* units of GyroMouseOnlineConfig; the interval of 0.14 ms is below the unit of
\* time, and of the sensitivity 3.2, which enters nothing but the size of a
\* moveRel step, the whole part is kept
DashboardGyroConfig ==
    [GyroMouseOnlineConfig EXCEPT !.sensitivity_x = 3, !.sensitivity_y = 3,
                                  !.update_interval_sec = 0, !.deadzone_deg = 1000,
                                  !.max_step_px = 40000, !.smooth_alpha = 88,
                                  !.still_eps_deg = 900, !.center_eps_deg = 1200]

\* number of packets delivered to a dashboard
MaxDelivered == 4

\* the packets a dashboard is given: signal batches (one whose last pack is
\* empty), envelope batches, and MEMS batches of finite points (one without a
\* Gyroscope attribute)
DashboardSignals ==
    {<<>>, << <<826, 100>>, <<>> >>, << <<-230>> >>, << <<100>>, <<826>> >>}

DashboardEnvelopes == {<<>>, <<-230, 100>>}

DashboardMems ==
    {<<>>, <<NoGyroscope(<<0, 0, 100000>>)>>}
    \cup { <<Element(<<0, 0, 100000>>, g, {})>> :
             g \in {<<1000, 0, 2000>>, <<10000, 0, 1500>>} }

NoDelivery == [cb |-> "none", raised |-> "none", by |-> "none"]

\* the threads of a running dashboard: one for each callback of the stream, and
\* the thread of the plot timer
Threads == {"mems", "envelope", "signal", "plot"}

NoAccess == [by |-> "none", holder |-> "none"]

NoCopies == [emg_env |-> <<>>, emg_sig |-> <<>>, acc |-> <<>>, gyr |-> <<>>]

\* a dashboard before its construction, with the file it will find
NewDashboard(f) ==
    [file |-> f, loaded |-> FALSE, load_raised |-> FALSE, saved |-> <<>>,
     restarted |-> FALSE, emg_env |-> <<>>,
     emg_sig |-> <<>>, acc |-> <<>>, gyr |-> <<>>, n |-> 0, escaped |-> FALSE,
     last |-> NoDelivery,
     pc |-> [t \in Threads |-> "idle"], lock |-> "free",
     arg |-> [t \in Threads |-> <<>>],
     snap |-> [s |-> GyroMouseOnlineMode_init, now |-> 0],
     wrote |-> [t \in Threads |-> {}], access |-> NoAccess, plotted |-> NoCopies]

\* __init__: the thresholds are loaded and the detector is made with them
CallibriDashboard_init ==
    /\ active = "loader"
    /\ ~dash.loaded
    /\ LET r == load_saved_thresholds(dash.file)
       IN /\ dash' = [dash EXCEPT !.loaded = TRUE, !.load_raised = r.raised]
          /\ config' = DashboardClickConfig(r.thresholds)
    /\ UNCHANGED <<clock, active, backend, last_click_ts, is_dragging, muscle_buffer, emitted,
                   call, scen, raises, motionVars>>

\* save with the axes of the triple written under each other's keys
save_file_swapped(f, t, outcome) ==
    IF outcome = "open_raises" THEN f
    ELSE IF outcome = "dump_raises" THEN [kind |-> "invalid", obj |-> NoObject]
    ELSE [kind |-> "object",
          obj |-> [k \in ThresholdKeys |->
                      IF k = "left_threshold" THEN Num(t[2])
                      ELSE IF k = "right_threshold" THEN Num(t[1])
                      ELSE Num(t[3])]]

\* the file after _save_thresholds_to_code: open(config_path, 'w') truncates the
\* file and json.dump writes the three values under their keys (and a timestamp,
\* a key the load never reads); an open that raises leaves the file as it was,
\* and a dump that raises leaves it cut short; either exception is caught
save_file(f, t, outcome) ==
    IF outcome = "open_raises" THEN f
    ELSE IF outcome = "dump_raises" THEN [kind |-> "invalid", obj |-> NoObject]
    ELSE [kind |-> "object",
          obj |-> [k \in ThresholdKeys |->
                      IF k = "left_threshold" THEN Num(t[1])
                      ELSE IF k = "right_threshold" THEN Num(t[2])
                      ELSE Num(t[3])]]

\* the triples a threshold dialog hands back: the dataclass defaults, the
\* fallback literals, and two more
SavedTriples ==
    {<<150, 250, 225>>, FallbackThresholds, <<300, 600, 900>>, <<600, 300, 900>>}

SaveOutcomes == {"written", "open_raises", "dump_raises"}

\* _update_thresholds: the thresholds of the detector are set and saved
update_thresholds(t, outcome) ==
    /\ active = "loader"
    /\ dash.loaded
    /\ config' = [config EXCEPT !.left_threshold = t[1], !.right_threshold = t[2],
                                !.hold_threshold = t[3]]
    /\ dash' = [dash EXCEPT !.file = save_file(@, t, outcome),
                            !.saved = IF outcome = "written" THEN t
                                      ELSE IF outcome = "dump_raises" THEN <<>>
                                      ELSE @]
    /\ UNCHANGED <<clock, active, backend, last_click_ts, is_dragging, muscle_buffer, emitted,
                   call, scen, raises, motionVars>>

\* the program ends and is started again: a new dashboard finds the file as the
\* last one left it
restart ==
    /\ active = "loader"
    /\ dash.loaded
    /\ dash' = [NewDashboard(dash.file) EXCEPT !.saved = dash.saved,
                                               !.restarted = TRUE]
    /\ UNCHANGED <<clock, active, backend, clickVars, motionVars>>

\* ---- the callbacks
\* a fault: the step of the callback that raises and the class of the exception
NoFault == [stage |-> "none", exc |-> "RuntimeError"]

Faults(stages) ==
    {NoFault} \cup { [stage |-> s, exc |-> e] :
                       s \in stages, e \in {"AttributeError", "RuntimeError"} }

\* deque(maxlen=1000).append
deque_append(q, v) == IF Len(q) + 1 > 1000 THEN Tail(Append(q, v)) ELSE Append(q, v)

\* the record of a delivery: the step that raised, and who caught the exception
\* ("handler": a try block inside _on_*, "callback": the _safe_* wrapper,
\* "nobody": it left the callback)
Delivery(cb, raised, by) == [cb |-> cb, raised |-> raised, by |-> by]

\* who catches an exception of class exc raised inside a try block of _on_* whose
\* handlers are the classes in named and, after them, except Exception; what
\* leaves _on_* meets the except Exception of the _safe_* wrapper
CaughtBy(named, exc) ==
    IF exc \in named \/ except_Exception(exc) THEN "handler"
    ELSE IF except_Exception(exc) THEN "callback"
    ELSE "nobody"

\* the dashboard after a delivery
Delivered(d, cb, raised, by) ==
    [d EXCEPT !.n = @ + 1, !.last = Delivery(cb, raised, by),
              !.escaped = (by = "nobody")]

\* _safe_signal_callback around _on_signal
safe_signal_callback(data, fault) ==
    /\ active = "dashboard"
    /\ ~dash.escaped
    /\ dash.n < MaxDelivered
    /\ LET parses == data # <<>> /\ data[Len(data)] # <<>>
           vmax == IF parses THEN MaxAbs(data[Len(data)]) ELSE 0
           parse_raises == parses /\ fault.stage = "parse"
           updates == parses /\ ~parse_raises
       IN /\ IF updates THEN signal_step(data, fault.stage # "update")
             ELSE UNCHANGED clickVars
          /\ LET update_raises == updates /\ call'.op = "signal_raised"
                 update_by == CaughtBy({}, fault.exc)
                 appends == updates /\ (update_raises => update_by = "handler")
                 append_raises == appends /\ fault.stage = "append"
             IN dash' =
                  IF parse_raises
                  THEN Delivered(dash, "signal", "parse",
                                 CaughtBy({"AttributeError", "ValueError"}, fault.exc))
                  ELSE IF update_raises /\ ~appends
                  THEN Delivered(dash, "signal", "update", update_by)
                  ELSE IF append_raises
                  THEN Delivered(dash, "signal", "append", CaughtBy({}, fault.exc))
                  ELSE IF update_raises
                  THEN Delivered([dash EXCEPT !.emg_sig = deque_append(@, vmax)],
                                 "signal", "update", update_by)
                  ELSE IF appends
                  THEN Delivered([dash EXCEPT !.emg_sig = deque_append(@, vmax)],
                                 "signal", "none", "none")
                  ELSE Delivered(dash, "signal", "none", "none")
    /\ UNCHANGED <<clock, active, backend, motionVars>>

\* update_emg with the flag taken from the activation before the call
update_emg_stale_flag(c, s, envelope_value) ==
    LET smooth == Blend(s.emg_smooth, RoundDiv(envelope_value, 1000),
                        c.emg_smooth_alpha, 100)
    IN [s EXCEPT !.emg_smooth = smooth, !.emg_active = (s.emg_smooth >= c.emg_threshold)]

\* GyroMouseOnlineMode.update_emg: the envelope in microvolts, the gate in 0.001
update_emg(c, s, envelope_value) ==
    LET smooth == Blend(s.emg_smooth, RoundDiv(envelope_value, 1000),
                        c.emg_smooth_alpha, 100)
    IN [s EXCEPT !.emg_smooth = smooth, !.emg_active = (smooth >= c.emg_threshold)]

\* _safe_envelope_callback around _on_envelope
safe_envelope_callback(data, fault) ==
    /\ active = "dashboard"
    /\ ~dash.escaped
    /\ dash.n < MaxDelivered
    /\ LET parses == data # <<>>
           v == IF parses THEN data[Len(data)] ELSE 0
           parse_raises == parses /\ fault.stage = "parse"
           stores == parses /\ ~parse_raises
           appends == stores /\ fault.stage # "append"
           updates == appends /\ fault.stage # "update"
       IN /\ online' = IF updates THEN update_emg(DashboardGyroConfig, online, v)
                       ELSE online
          /\ dash' =
               IF parse_raises
               THEN Delivered(dash, "envelope", "parse",
                              CaughtBy({"AttributeError", "ValueError"}, fault.exc))
               ELSE IF stores /\ ~appends
               THEN Delivered(dash, "envelope", "append", CaughtBy({}, fault.exc))
               ELSE IF appends /\ ~updates
               THEN Delivered([dash EXCEPT !.emg_env = deque_append(@, v)],
                              "envelope", "update", CaughtBy({}, fault.exc))
               ELSE IF updates
               THEN Delivered([dash EXCEPT !.emg_env = deque_append(@, v)],
                              "envelope", "none", "none")
               ELSE Delivered(dash, "envelope", "none", "none")
    /\ UNCHANGED <<clock, active, backend, clickVars, mems, gyro, mcall, accepted, mon>>

\* _safe_mems_callback around _on_mems; an exception in update_mems is one of its
\* moveRel call, the last statement of update_mems
safe_mems_callback(data, fault) ==
    /\ active = "dashboard"
    /\ ~dash.escaped
    /\ dash.n < MaxDelivered
    /\ LET m == data[Len(data)]
           parses == data # <<>> /\ m.has_acc /\ m.has_gyr
           parse_raises == parses /\ fault.stage = "parse"
           updates == parses /\ ~parse_raises
           o == gyro_online_update_mems(DashboardGyroConfig, online, data, clock)
           update_raises == updates /\ fault.stage = "update" /\ o.moved # <<>>
           update_by == CaughtBy({}, fault.exc)
           appends == updates /\ (update_raises => update_by = "handler")
           append_raises == appends /\ fault.stage \in {"append", "append_gyr"}
           acc1 == IF appends /\ fault.stage # "append"
                   THEN deque_append(dash.acc, m.acc) ELSE dash.acc
           gyr1 == IF appends /\ ~append_raises
                   THEN deque_append(dash.gyr, <<m.gyr[1], m.gyr[3]>>) ELSE dash.gyr
           d1 == [dash EXCEPT !.acc = acc1, !.gyr = gyr1]
       IN /\ online' = IF updates THEN o.s ELSE online
          /\ dash' =
               IF parse_raises
               THEN Delivered(dash, "mems", "parse",
                              CaughtBy({"AttributeError"}, fault.exc))
               ELSE IF append_raises
               THEN Delivered(d1, "mems", "append",
                              CaughtBy({"ValueError", "AttributeError"}, fault.exc))
               ELSE IF update_raises
               THEN Delivered(d1, "mems", "update", update_by)
               ELSE Delivered(d1, "mems", "none", "none")
    /\ UNCHANGED <<clock, active, backend, clickVars, mems, gyro, mcall, accepted, mon>>

\* _safe_quat_callback around _on_quat, which returns at once
safe_quat_callback ==
    /\ active = "dashboard"
    /\ ~dash.escaped
    /\ dash.n < MaxDelivered
    /\ dash' = Delivered(dash, "quat", "none", "none")
    /\ UNCHANGED <<clock, active, backend, clickVars, motionVars>>


\* ---- the callbacks and the plot timer as threads
\* threading.Lock.acquire without the wait for the holder
Lock_acquire_unguarded(lock, t) == [ok |-> TRUE, lock |-> t]

\* threading.Lock.acquire, as "with self._lock" calls it: the thread goes on
\* when nobody holds the lock, and holds it then
Lock_acquire(lock, t) == [ok |-> lock = "free", lock |-> t]

\* the envelope batches given to a running dashboard, in microvolts
ThreadEnvelopes == {<<>>, <<0, 10000000>>}

\* the fields of the controller that differ between two of its states
ControllerWrites(a, b) == { <<"controller", f>> : f \in {g \in DOMAIN a : a[g] # b[g]} }

\* thread t at position p
At(d, t, p) == [d EXCEPT !.pc[t] = p]

\* an access to a display buffer by thread t, with the holder of the lock
Access(d, t) == [d EXCEPT !.access = [by |-> t, holder |-> d.lock]]

\* the lock given back at the end of a with block
Release(d) == [d EXCEPT !.lock = "free"]

\* a thread waiting at "with self._lock" gets the lock
acquire(t) ==
    /\ active = "threads"
    /\ dash.pc[t] = "acquire"
    /\ Lock_acquire(dash.lock, t).ok
    /\ dash' = [At(dash, t, "locked") EXCEPT !.lock = Lock_acquire(dash.lock, t).lock]
    /\ UNCHANGED <<clock, active, backend, clickVars, motionVars>>

\* _on_mems up to the call of update_mems, where the controller reads the time
mems_deliver(data) ==
    /\ active = "threads"
    /\ dash.pc["mems"] = "idle"
    /\ dash.n < MaxDelivered
    /\ LET parses == data # <<>> /\ data[Len(data)].has_acc /\ data[Len(data)].has_gyr
       IN dash' = IF parses
                  THEN [At(dash, "mems", "update") EXCEPT
                           !.n = @ + 1, !.arg["mems"] = data,
                           !.snap = [s |-> online, now |-> clock]]
                  ELSE [dash EXCEPT !.n = @ + 1]
    /\ UNCHANGED <<clock, active, backend, clickVars, motionVars>>

\* update_mems returns: the fields it assigned hold its values, outside the lock
mems_update ==
    /\ active = "threads"
    /\ dash.pc["mems"] = "update"
    /\ \E o \in {gyro_online_update_mems(DashboardGyroConfig, dash.snap.s,
                                          dash.arg["mems"], dash.snap.now)} :
          LET w == {f \in DOMAIN online : o.s[f] # dash.snap.s[f]}
          IN /\ online' = [f \in DOMAIN online |-> IF f \in w THEN o.s[f] ELSE online[f]]
             /\ dash' = [At(dash, "mems", "acquire") EXCEPT
                            !.wrote["mems"] = @ \cup ControllerWrites(dash.snap.s, o.s)]
    /\ UNCHANGED <<clock, active, backend, clickVars, mems, gyro, mcall, accepted, mon>>

\* the with block of _on_mems: the point goes to the buffers
mems_append ==
    /\ active = "threads"
    /\ dash.pc["mems"] = "locked"
    /\ LET m == dash.arg["mems"][Len(dash.arg["mems"])]
       IN dash' = Release(At([Access(dash, "mems") EXCEPT
                                 !.acc = deque_append(@, m.acc),
                                 !.gyr = deque_append(@, <<m.gyr[1], m.gyr[3]>>)],
                             "mems", "idle"))
    /\ UNCHANGED <<clock, active, backend, clickVars, motionVars>>

\* _on_envelope up to its with block
envelope_deliver(data) ==
    /\ active = "threads"
    /\ dash.pc["envelope"] = "idle"
    /\ dash.n < MaxDelivered
    /\ dash' = IF data # <<>>
               THEN [At(dash, "envelope", "acquire") EXCEPT
                        !.n = @ + 1, !.arg["envelope"] = <<data[Len(data)]>>]
               ELSE [dash EXCEPT !.n = @ + 1]
    /\ UNCHANGED <<clock, active, backend, clickVars, motionVars>>

\* the with block of _on_envelope, first statement: the value goes to the buffer
envelope_append ==
    /\ active = "threads"
    /\ dash.pc["envelope"] = "locked"
    /\ dash' = At([Access(dash, "envelope") EXCEPT
                      !.emg_env = deque_append(@, dash.arg["envelope"][1])],
                  "envelope", "locked_update")
    /\ UNCHANGED <<clock, active, backend, clickVars, motionVars>>

\* the with block of _on_envelope, second statement: update_emg, and the lock
\* is given back
envelope_update_emg ==
    /\ active = "threads"
    /\ dash.pc["envelope"] = "locked_update"
    /\ online' = update_emg(DashboardGyroConfig, online, dash.arg["envelope"][1])
    /\ dash' = Release([At(dash, "envelope", "idle") EXCEPT
                           !.wrote["envelope"] = @ \cup ControllerWrites(online, online')])
    /\ UNCHANGED <<clock, active, backend, clickVars, mems, gyro, mcall, accepted, mon>>

\* _on_signal up to its with block: update_from_signal is called outside the lock
signal_deliver(data) ==
    /\ active = "threads"
    /\ dash.pc["signal"] = "idle"
    /\ dash.n < MaxDelivered
    /\ IF data # <<>> /\ data[Len(data)] # <<>>
       THEN /\ signal_step(data, TRUE)
            /\ dash' = [At(dash, "signal", "acquire") EXCEPT
                           !.n = @ + 1, !.arg["signal"] = <<MaxAbs(data[Len(data)])>>,
                           !.wrote["signal"] = @ \cup
                               { <<"classifier", f>> :
                                   f \in {g \in {"last_click_ts", "is_dragging", "buffer"} :
                                            \/ g = "last_click_ts"
                                               /\ last_click_ts' # last_click_ts
                                            \/ g = "is_dragging"
                                               /\ is_dragging' # is_dragging
                                            \/ g = "buffer"
                                               /\ muscle_buffer' # muscle_buffer} }]
       ELSE /\ dash' = [dash EXCEPT !.n = @ + 1]
            /\ UNCHANGED clickVars
    /\ UNCHANGED <<clock, active, backend, motionVars>>

\* the with block of _on_signal: the amplitude goes to the buffer
signal_append ==
    /\ active = "threads"
    /\ dash.pc["signal"] = "locked"
    /\ dash' = Release(At([Access(dash, "signal") EXCEPT
                              !.emg_sig = deque_append(@, dash.arg["signal"][1])],
                          "signal", "idle"))
    /\ UNCHANGED <<clock, active, backend, clickVars, motionVars>>

\* the timer fires and _update_plots comes to its with block
plot_timeout ==
    /\ active = "threads"
    /\ dash.pc["plot"] = "idle"
    /\ dash.n < MaxDelivered
    /\ dash' = [At(dash, "plot", "acquire") EXCEPT !.n = @ + 1]
    /\ UNCHANGED <<clock, active, backend, clickVars, motionVars>>

\* the lists made in the with block of _update_plots
plot_copies(d) ==
    [emg_env |-> d.emg_env, emg_sig |-> d.emg_sig, acc |-> d.acc, gyr |-> d.gyr]

\* the with block of _update_plots: the buffers are copied
plot_copy ==
    /\ active = "threads"
    /\ dash.pc["plot"] = "locked"
    /\ dash' = Release(At([Access(dash, "plot") EXCEPT
                              !.plotted = plot_copies(dash)],
                          "plot", "draw"))
    /\ UNCHANGED <<clock, active, backend, clickVars, motionVars>>

\* the rest of _update_plots: the curves are given the copies
plot_draw ==
    /\ active = "threads"
    /\ dash.pc["plot"] = "draw"
    /\ dash' = At(dash, "plot", "idle")
    /\ UNCHANGED <<clock, active, backend, clickVars, motionVars>>

\* ---- update_emg called on a controller directly
\* envelope values, in microvolts: none, and one far above the gate
EmgEnvelopes == {0, 10000000}

GyroMouseOnlineMode_update_emg(v) ==
    /\ active = "online"
    /\ mon.n < MaxPackets
    /\ online' = update_emg(GyroMouseOnlineConfig, online, v)
    /\ mon' = [mon EXCEPT !.n = @ + 1]
    /\ UNCHANGED <<clock, active, backend, clickVars, mems, gyro, mcall, accepted, dash>>

GyroMouseMode_update_emg(v) ==
    /\ active = "gyro"
    /\ mon.n < MaxPackets
    /\ gyro' = update_emg(GyroMouseConfig, gyro, v)
    /\ mon' = [mon EXCEPT !.n = @ + 1]
    /\ UNCHANGED <<clock, active, backend, clickVars, mems, online, mcall, accepted, dash>>

\* the packets of the runs with an EMG envelope: at rest, and far out on x
EmgBatches ==
    { <<Element(<<0, 0, 100000>>, g, {})>> : g \in {<<1000, 0, 2000>>, <<10000, 0, 1500>>} }

\* the files a running dashboard was constructed from: none, and one with a key
DashboardFiles ==
    { [kind |-> "missing", obj |-> NoObject],
      [kind |-> "object", obj |-> [NoObject EXCEPT !["left_threshold"] = Num(300)]] }

\* a dashboard after __init__
Constructed(f) ==
    [NewDashboard(f) EXCEPT !.loaded = TRUE,
                            !.load_raised = load_saved_thresholds(f).raised]

\* no dashboard is part of the run
NoDashboard == NewDashboard([kind |-> "missing", obj |-> NoObject])

\* ---------------------------------------------------------------- the clock

\* the time that passes between two calls of the classifier: 0.1 s
TickSteps == {ScenarioGap}

Tick(d) ==
    /\ clock + d <= StartTime + Horizon
    /\ clock' = clock + d
    /\ call' = NoCall
    /\ UNCHANGED <<active, backend, config, last_click_ts, is_dragging, muscle_buffer, emitted,
                   scen, raises, motionVars, dash>>

\* no backend in this run
NoBackend == [users |-> {}, tokens |-> {}]

\* ---------------------------------------------------------------- specifications

InitClick ==
    /\ config \in Configs
    /\ last_click_ts = 0
    /\ is_dragging = FALSE
    /\ muscle_buffer = <<>>
    /\ emitted = <<>>
    /\ call = NoCall
    /\ scen = ScenStart
    /\ raises = 0

InitMotion ==
    /\ mems = MemsMouseMode_init
    /\ online = GyroMouseOnlineMode_init
    /\ gyro = GyroMouseMode_init
    /\ mcall = NoMemsCall
    /\ accepted = <<>>
    /\ mon = MonInit

\* the classifier
Init ==
    /\ clock = StartTime
    /\ active = "click"
    /\ InitClick
    /\ InitMotion
    /\ backend = NoBackend
    /\ dash = NoDashboard

Next ==
    \/ \E d \in TickSteps : Tick(d)
    \/ \E data \in SignalBatches, ok \in BOOLEAN : update_from_signal(data, ok)
    \/ \E data \in EnvelopeBatches, ok \in BOOLEAN : update_from_envelope(data, ok)

Spec == Init /\ [][Next]_vars

\* the motion controllers, one per run
MotionInit ==
    /\ clock = StartTime
    /\ active \in {"mems", "mems_swapped", "online", "gyro"}
    /\ InitClick
    /\ config = MuscleClickConfig
    /\ InitMotion
    /\ backend = NoBackend
    /\ dash = NoDashboard

MotionNext ==
    \/ \E data \in MemsBatches, d \in Delays(MemsMouseConfig) :
           MemsMouseMode_update_mems(data, d)
    \/ \E data \in GyroBatches, d \in GyroDelays(GyroMouseOnlineConfig) :
           GyroMouseOnlineMode_update_mems(data, d)
    \/ \E data \in GyroBatches, d \in GyroDelays(GyroMouseConfig) :
           GyroMouseMode_update_mems(data, d)

SpecMotion == MotionInit /\ [][MotionNext]_vars

\* the threshold file of a dashboard under construction
LoadInit ==
    /\ clock = StartTime
    /\ active = "loader"
    /\ InitClick
    /\ config = MuscleClickConfig
    /\ InitMotion
    /\ backend = NoBackend
    /\ dash \in { NewDashboard(f) : f \in Files }

LoadNext ==
    \/ CallibriDashboard_init
    \/ \E t \in SavedTriples, outcome \in SaveOutcomes : update_thresholds(t, outcome)
    \/ restart

SpecLoad == LoadInit /\ [][LoadNext]_vars

\* a constructed dashboard and the packets its stream delivers
DashboardInit ==
    /\ clock = StartTime
    /\ active = "dashboard"
    /\ dash \in { Constructed(f) : f \in DashboardFiles }
    /\ config = DashboardClickConfig(load_saved_thresholds(dash.file).thresholds)
    /\ last_click_ts = 0
    /\ is_dragging = FALSE
    /\ muscle_buffer = <<>>
    /\ emitted = <<>>
    /\ call = NoCall
    /\ scen = ScenOff
    /\ raises = 0
    /\ InitMotion
    /\ backend = NoBackend

DashboardNext ==
    \/ Tick(cooldown_ms)
    \/ \E data \in DashboardSignals, fault \in Faults({"parse", "update", "append"}) :
           safe_signal_callback(data, fault)
    \/ \E data \in DashboardEnvelopes,
          fault \in Faults({"parse", "update", "append"}) :
           safe_envelope_callback(data, fault)
    \/ \E data \in DashboardMems,
          fault \in Faults({"parse", "update", "append", "append_gyr"}) :
           safe_mems_callback(data, fault)
    \/ safe_quat_callback

SpecDashboard == DashboardInit /\ [][DashboardNext]_vars

\* the amplitudes of the signals a detector was given before the run, all below
\* its thresholds: none, nine, and ten of them
PriorAmplitudes == {<<>>, [i \in 1..9 |-> 100 + i], [i \in 1..10 |-> 100 + i]}

\* the detector of a dashboard that has classified the prior signals, none of
\* which made it click
BufferInit ==
    /\ clock = StartTime
    /\ active = "dashboard"
    /\ muscle_buffer \in PriorAmplitudes
    /\ dash \in { [Constructed(f) EXCEPT !.emg_sig = muscle_buffer] :
                    f \in DashboardFiles }
    /\ config = DashboardClickConfig(load_saved_thresholds(dash.file).thresholds)
    /\ last_click_ts = 0
    /\ is_dragging = FALSE
    /\ emitted = <<>>
    /\ call = NoCall
    /\ scen = ScenOff
    /\ raises = 0
    /\ InitMotion
    /\ backend = NoBackend

BufferNext ==
    \/ Tick(cooldown_ms)
    \/ \E data \in DashboardSignals : safe_signal_callback(data, NoFault)

SpecBuffer == BufferInit /\ [][BufferNext]_vars

\* a running dashboard that found no threshold file, its callbacks and its plot
\* timer each on a thread; the envelope buffer is new, or full after a thousand
\* envelopes of 0
ThreadsInit ==
    /\ clock = StartTime
    /\ active = "threads"
    /\ dash \in { [Constructed([kind |-> "missing", obj |-> NoObject]) EXCEPT
                        !.emg_env = b] : b \in {<<>>, [i \in 1..1000 |-> 0]} }
    /\ config = DashboardClickConfig(load_saved_thresholds(dash.file).thresholds)
    /\ last_click_ts = 0
    /\ is_dragging = FALSE
    /\ muscle_buffer = <<>>
    /\ emitted = <<>>
    /\ call = NoCall
    /\ scen = ScenOff
    /\ raises = 0
    /\ InitMotion
    /\ backend = NoBackend

ThreadsNext ==
    \/ Tick(cooldown_ms)
    \/ \E t \in Threads : acquire(t)
    \/ \E data \in DashboardMems : mems_deliver(data)
    \/ mems_update
    \/ mems_append
    \/ \E data \in ThreadEnvelopes : envelope_deliver(data)
    \/ envelope_append
    \/ envelope_update_emg
    \/ \E data \in DashboardSignals : signal_deliver(data)
    \/ signal_append
    \/ plot_timeout
    \/ plot_copy
    \/ plot_draw

SpecThreads == ThreadsInit /\ [][ThreadsNext]_vars

\* a gyroscope controller given MEMS packets and EMG envelopes in any order
EmgInit ==
    /\ clock = StartTime
    /\ active \in {"online", "gyro"}
    /\ InitClick
    /\ config = MuscleClickConfig
    /\ InitMotion
    /\ backend = NoBackend
    /\ dash = NoDashboard

EmgNext ==
    \/ \E data \in EmgBatches, d \in GyroDelays(GyroMouseOnlineConfig) :
           GyroMouseOnlineMode_update_mems(data, d)
    \/ \E data \in EmgBatches, d \in GyroDelays(GyroMouseConfig) :
           GyroMouseMode_update_mems(data, d)
    \/ \E v \in EmgEnvelopes : GyroMouseOnlineMode_update_emg(v)
    \/ \E v \in EmgEnvelopes : GyroMouseMode_update_emg(v)

SpecEmg == EmgInit /\ [][EmgNext]_vars

\* GyroMouseOnlineMode on a sensor that streams without end
StreamInit ==
    /\ clock = StartTime
    /\ active = "stream"
    /\ InitClick
    /\ config = MuscleClickConfig
    /\ InitMotion
    /\ backend = NoBackend
    /\ dash = NoDashboard

StreamNext ==
    \E g \in StreamRest \cup StreamTurned, d \in StreamDelays(GyroMouseOnlineConfig) :
        GyroMouseOnlineMode_stream(g, d)

SpecStream == StreamInit /\ [][StreamNext]_vars

\* the sensor keeps sending
SpecStreamFair == SpecStream /\ WF_vars(StreamNext)

\* the three controllers constructed with neutral_samples = 0, one per run
UncalibratedInit ==
    /\ clock = StartTime
    /\ active \in {"mems0", "online0", "gyro0"}
    /\ InitClick
    /\ config = MuscleClickConfig
    /\ InitMotion
    /\ backend = NoBackend
    /\ dash = NoDashboard

UncalibratedNext ==
    \E data \in UncalibratedBatches, d \in Delays(GyroMouseOnlineConfig) :
        update_mems_uncalibrated(data, d)

SpecUncalibrated == UncalibratedInit /\ [][UncalibratedNext]_vars

\* ---------------------------------------------------------------- backend (main.py)

\* bounds of a backend run: tokens generated, users ever inserted, and the ticks
\* of the database clock
MaxTokens == 3

MaxUserId == 3

MaxNow == 3

\* timedelta(days=30), in ticks
TokenTtl == 2

\* datetime.now() is the server's local time and datetime('now') is UTC: the
\* offsets local - UTC of a server, in ticks
Offsets == {-1, 0, 1}

Emails == {"a@x.org"}

AdminEmail == "admin@admin.com"

Passwords == {"12345", "secret", "admin123"}

\* sha256(password).hexdigest(): a digest per password
hash_password(password) == <<"sha256", password>>

\* a request without an Authorization header, and one with a string that was
\* never generated
NoCredentials == -1

Forged == 0

\* tables users and tokens after init_db, with the default administrator; seq is
\* the AUTOINCREMENT sequence of users.id, minted the number of tokens generated;
\* foreign_keys says whether the build enforces ON DELETE CASCADE (the code never
\* sets the pragma). issued, logged_out and deleted record the requests made.
init_db(offset, foreign_keys) ==
    [users |-> {[id |-> 1, email |-> AdminEmail,
                 password_hash |-> hash_password("admin123"), is_admin |-> TRUE]},
     tokens |-> {}, seq |-> 1, minted |-> 0, utc |-> 0, offset |-> offset,
     foreign_keys |-> foreign_keys,
     issued |-> {}, logged_out |-> {}, deleted |-> {}]

\* the rows of the join users/tokens that get_current_user selects
current_rows(b, token) ==
    { u \in b.users : \E t \in b.tokens :
          /\ u.id = t.user_id
          /\ t.token = token
          /\ t.expires_at > b.utc }

\* get_current_user returns a user or None
get_current_user(b, token) ==
    token # NoCredentials /\ current_rows(b, token) # {}

\* the row inserted into tokens: generate_token gives a string never seen
\* before, and expires_at is local time plus 30 days
new_token(b, user_id) ==
    [user_id |-> user_id, token |-> b.minted + 1,
     expires_at |-> b.utc + b.offset + TokenTtl]

\* what issuing does to the database
issue(b, user_id) ==
    [b EXCEPT !.tokens = @ \cup {new_token(b, user_id)},
              !.minted = @ + 1,
              !.issued = @ \cup {[token |-> b.minted + 1, user |-> user_id, at |-> b.utc]}]

\* the strings a client can present: none, a made-up one, or a generated one
Presented(b) == {NoCredentials, Forged} \cup (1..b.minted)

Credentials == {NoCredentials, Forged} \cup (1..MaxTokens)

register(email, password) ==
    /\ active = "backend"
    /\ backend.minted < MaxTokens /\ backend.seq < MaxUserId
    /\ backend' =
         IF Len(password) < 6 THEN backend
         ELSE IF \E u \in backend.users : u.email = email
         THEN backend
         ELSE LET user_id == backend.seq + 1
                  b1 == [backend EXCEPT
                           !.users = @ \cup {[id |-> user_id, email |-> email,
                                              password_hash |-> hash_password(password),
                                              is_admin |-> FALSE]},
                           !.seq = user_id]
              IN issue(b1, user_id)
    /\ UNCHANGED <<clock, active, clickVars, motionVars, dash>>

login(email, password) ==
    /\ active = "backend"
    /\ backend.minted < MaxTokens
    /\ LET found == { u \in backend.users :
                        /\ u.email = email
                        /\ u.password_hash = hash_password(password) }
       IN backend' =
            IF found = {} THEN backend
            ELSE issue(backend, (CHOOSE u \in found : TRUE).id)
    /\ UNCHANGED <<clock, active, clickVars, motionVars, dash>>

logout(token) ==
    /\ active = "backend"
    /\ token \in Presented(backend)
    /\ backend' =
         IF token = NoCredentials THEN backend
         ELSE [backend EXCEPT !.tokens = { t \in @ : t.token # token },
                              !.logged_out = @ \cup {token}]
    /\ UNCHANGED <<clock, active, clickVars, motionVars, dash>>

\* DELETE FROM users; the rows of tokens go with the user only where foreign
\* keys are enforced
admin_delete_user(user_id, token) ==
    /\ active = "backend"
    /\ token \in Presented(backend) /\ user_id <= backend.seq
    /\ backend' =
         IF ~get_current_user(backend, token) THEN backend
         ELSE LET user == CHOOSE u \in current_rows(backend, token) : TRUE
              IN IF ~user.is_admin THEN backend
                 ELSE IF user_id = user.id THEN backend
                 ELSE [backend EXCEPT
                         !.users = { u \in @ : u.id # user_id },
                         !.tokens = IF backend.foreign_keys
                                    THEN { t \in @ : t.user_id # user_id } ELSE @,
                         !.deleted = @ \cup {user_id}]
    /\ UNCHANGED <<clock, active, clickVars, motionVars, dash>>

\* time passes between two requests
backend_tick ==
    /\ active = "backend"
    /\ backend.utc < MaxNow
    /\ backend' = [backend EXCEPT !.utc = @ + 1]
    /\ UNCHANGED <<clock, active, clickVars, motionVars, dash>>

BackendInit ==
    /\ clock = StartTime
    /\ active = "backend"
    /\ InitClick
    /\ config = MuscleClickConfig
    /\ mems = MemsMouseMode_init
    /\ online = GyroMouseOnlineMode_init
    /\ gyro = GyroMouseMode_init
    /\ mcall = NoMemsCall
    /\ accepted = <<>>
    /\ mon = MonInit
    /\ dash = NoDashboard
    /\ backend \in { init_db(o, fk) : o \in Offsets, fk \in BOOLEAN }

BackendNext ==
    \/ \E e \in Emails, p \in Passwords : register(e, p)
    \/ \E e \in Emails \cup {AdminEmail}, p \in Passwords : login(e, p)
    \/ \E t \in Credentials : logout(t)
    \/ \E id \in 1..MaxUserId, t \in Credentials : admin_delete_user(id, t)
    \/ backend_tick

SpecBackend == BackendInit /\ [][BackendNext]_vars

\* ---------------------------------------------------------------- concurrent register requests

\* the register requests served at once, each in a thread of the pool with a
\* connection of its own
MaxRequests == 3

Requests == 1..MaxRequests

RegisterEmails == {"a@x.org", "b@x.org"}

\* UNIQUE on users.email, without the constraint
unique_email_unenforced(users, email) == TRUE

\* UNIQUE on users.email: the INSERT raises IntegrityError when a row holds it
unique_email(users, email) == \A u \in users : u.email # email

\* the database after init_db and the requests before their first statement:
\* writer is the connection that holds the write lock (0 for none), pending its
\* uncommitted rows
register_db(emails) ==
    LET b == init_db(0, FALSE)
    IN [users |-> b.users, tokens |-> b.tokens, seq |-> b.seq, minted |-> b.minted,
        utc |-> b.utc, offset |-> b.offset,
        writer |-> 0, pending |-> [users |-> {}, tokens |-> {}],
        email |-> emails,
        pc |-> [t \in Requests |-> "select"],
        returned |-> [t \in Requests |-> Forged]]

\* request t stops with an HTTP error; closing its connection rolls back what it
\* wrote and frees the lock
fails(b, t, code) ==
    [b EXCEPT !.pc[t] = code,
              !.writer = IF @ = t THEN 0 ELSE @,
              !.pending = IF b.writer = t THEN [users |-> {}, tokens |-> {}] ELSE @]

\* SELECT id FROM users WHERE email = ?: the committed rows
register_select(t) ==
    /\ active = "register"
    /\ backend.pc[t] = "select"
    /\ backend' = IF \E u \in backend.users : u.email = backend.email[t]
                  THEN fails(backend, t, "400")
                  ELSE [backend EXCEPT !.pc[t] = "insert_user"]
    /\ UNCHANGED <<clock, active, clickVars, motionVars, dash>>

\* INSERT INTO users opens the transaction and takes the write lock; while
\* another connection holds it the statement waits, and raises "database is
\* locked" when the wait times out
register_insert_user(t, timeout) ==
    /\ active = "register"
    /\ backend.pc[t] = "insert_user"
    /\ IF backend.writer # 0
       THEN /\ timeout
            /\ backend' = fails(backend, t, "500")
       ELSE /\ ~timeout
            /\ backend' =
                 IF ~unique_email(backend.users, backend.email[t])
                 THEN fails(backend, t, "500")
                 ELSE [backend EXCEPT
                         !.writer = t,
                         !.pending.users =
                             {[id |-> backend.seq + 1, email |-> backend.email[t],
                               password_hash |-> hash_password("secret"),
                               is_admin |-> FALSE]},
                         !.pc[t] = "insert_token"]
    /\ UNCHANGED <<clock, active, clickVars, motionVars, dash>>

register_insert_token(t) ==
    /\ active = "register"
    /\ backend.pc[t] = "insert_token"
    /\ backend' = [backend EXCEPT
                     !.pending.tokens = {new_token(backend, backend.seq + 1)},
                     !.minted = @ + 1,
                     !.pc[t] = "commit"]
    /\ UNCHANGED <<clock, active, clickVars, motionVars, dash>>

\* conn.commit() and the response with the token
register_commit(t) ==
    /\ active = "register"
    /\ backend.pc[t] = "commit"
    /\ backend' = [backend EXCEPT
                     !.users = @ \cup backend.pending.users,
                     !.tokens = @ \cup backend.pending.tokens,
                     !.seq = @ + 1,
                     !.writer = 0,
                     !.pending = [users |-> {}, tokens |-> {}],
                     !.returned[t] = (CHOOSE r \in backend.pending.tokens : TRUE).token,
                     !.pc[t] = "200"]
    /\ UNCHANGED <<clock, active, clickVars, motionVars, dash>>

RegisterInit ==
    /\ clock = StartTime
    /\ active = "register"
    /\ InitClick
    /\ config = MuscleClickConfig
    /\ mems = MemsMouseMode_init
    /\ online = GyroMouseOnlineMode_init
    /\ gyro = GyroMouseMode_init
    /\ mcall = NoMemsCall
    /\ accepted = <<>>
    /\ mon = MonInit
    /\ dash = NoDashboard
    /\ backend \in { register_db(e) : e \in [Requests -> RegisterEmails] }

RegisterNext ==
    \/ \E t \in Requests : register_select(t)
    \/ \E t \in Requests, timeout \in BOOLEAN : register_insert_user(t, timeout)
    \/ \E t \in Requests : register_insert_token(t)
    \/ \E t \in Requests : register_commit(t)

SpecRegister == RegisterInit /\ [][RegisterNext]_vars

\* ---------------------------------------------------------------- claims C1..C5

DragEvents == SelectSeq(emitted, LAMBDA e : e.act \in {"DragStart", "DragEnd"})

\* C1: any two emitted actions (left click, right click, drag start, drag end),
\* from update_from_signal in either mode or from update_from_envelope, have
\* timestamps at least cooldown_sec apart.
C1_Cooldown ==
    \A i, j \in 1..Len(emitted) :
        i < j => emitted[j].ts - emitted[i].ts >= config.cooldown_sec

\* two actions of different handlers (a drag toggle and a click) exactly one
\* cooldown apart
C1_Witness ==
    /\ config.cooldown_sec = cooldown_ms
    /\ Len(emitted) >= 2
    /\ emitted[1].act = "DragStart"
    /\ emitted[2].act = "LeftClick"
    /\ emitted[2].ts - emitted[1].ts = cooldown_ms

\* C2: the drag events emitted by a detector alternate DragStart, DragEnd,
\* DragStart, ... starting with DragStart, and the dragging flag is true exactly
\* when one more DragStart than DragEnd has been emitted.
C2_DragAlternates ==
    /\ \A i \in 1..Len(DragEvents) :
           DragEvents[i].act = IF i % 2 = 1 THEN "DragStart" ELSE "DragEnd"
    /\ is_dragging = (Len(DragEvents) % 2 = 1)

\* two hold-threshold crossings one cooldown apart: DragStart, then DragEnd
C2_Witness ==
    /\ config.cooldown_sec = cooldown_ms
    /\ Len(DragEvents) = 2
    /\ DragEvents[2].ts - DragEvents[1].ts >= cooldown_ms
    /\ ~is_dragging

\* C3: every classification call (update_from_signal in either mode, or
\* update_from_envelope) emits at most one action.
C3_AtMostOneAction == [][Len(emitted') <= Len(emitted) + 1]_vars

\* a call whose amplitude meets all three thresholds with no cooldown to block a
\* second rule, and which emitted one action
C3_Witness ==
    /\ call.op = "signal"
    /\ config.cooldown_sec = 0
    /\ call.amp >= config.hold_threshold
    /\ call.amp >= config.right_threshold
    /\ call.amp >= config.left_threshold
    /\ Len(call.acts) = 1

\* the action the priority order hold > right > left prescribes for one call
PriorityAction(cfg, a, elapsed, drag) ==
    IF ~elapsed THEN <<>>
    ELSE IF a >= cfg.hold_threshold THEN <<IF drag THEN "DragEnd" ELSE "DragStart">>
    ELSE IF a >= cfg.right_threshold THEN <<"RightClick">>
    ELSE IF a >= cfg.left_threshold THEN <<"LeftClick">>
    ELSE <<>>

\* C4: in duration mode a call emits the action of the first matching rule in the
\* order hold > right > left when the cooldown has elapsed, and nothing when it
\* has not (no lower rule fires in place of a blocked one).
C4_Priority ==
    (call.op = "signal" /\ config.use_duration_detection) =>
        call.acts = PriorityAction(config, call.amp,
                                   clock - call.pre_ts >= config.cooldown_sec,
                                   call.pre_drag)

\* an amplitude that meets the hold and the right threshold gives the drag toggle
C4_Witness ==
    /\ call.op = "signal"
    /\ config.use_duration_detection
    /\ config.hold_threshold > config.right_threshold
    /\ call.amp >= config.hold_threshold
    /\ call.acts = <<"DragStart">>

Controller ==
    CASE active = "online" -> online
      [] active = "gyro" -> gyro
      [] OTHER -> mems

ControllerConfig ==
    CASE active = "online" -> GyroMouseOnlineConfig
      [] active = "gyro" -> GyroMouseConfig
      [] OTHER -> MemsConfigOf(active)

\* the stored smoothed velocity
Velocity ==
    IF active \in {"online", "gyro"} THEN <<Controller.vx, Controller.vy>>
    ELSE <<mems.vx_g, mems.vy_g>>

\* the stored baseline, in the order of the channels of a calibration sample
Baseline ==
    IF active \in {"online", "gyro"} THEN <<Controller.neutral_gx, Controller.neutral_gz>>
    ELSE <<mems.neutral_x, mems.neutral_y, mems.neutral_z>>

DeadZone ==
    IF active \in {"online", "gyro"} THEN ControllerConfig.deadzone_deg
    ELSE ControllerConfig.deadzone_g

\* the displacement of the last call on the screen axis that velocity axis i drives
AxisMove(i) ==
    IF mcall.moved = <<>> THEN 0
    ELSE mcall.moved[IF mcall.swapped THEN 3 - i ELSE i]

RECURSIVE ChannelSum(_, _)
ChannelSum(log, i) ==
    IF log = <<>> THEN 0 ELSE log[1][i] + ChannelSum(Tail(log), i)

\* the arithmetic mean of channel i of the logged calibration samples
ChannelMean(log, i) == Quot(ChannelSum(log, i), Len(log))

C7_NoOutputBeforeLock ==
    (\/ Controller.accum_count < ControllerConfig.neutral_samples
     \/ Len(accepted) = ControllerConfig.neutral_samples)
        => Velocity = <<0, 0>> /\ mcall.moved = <<>>

\* the N-th sample is far from rest and is the one that locks the baseline
C7_Witness ==
    /\ active = "online"
    /\ Len(accepted) = ControllerConfig.neutral_samples
    /\ accepted[Len(accepted)] = <<-10000, -10000>>
    /\ mcall.stage = "locked"

\* C8: every displacement handed to moveRel is within max_step_px on both axes
\* and is not zero on both.
C8_StepBounded ==
    mcall.moved # <<>>
        => /\ Abs(mcall.moved[1]) <= ControllerConfig.max_step_px
           /\ Abs(mcall.moved[2]) <= ControllerConfig.max_step_px
           /\ mcall.moved # <<0, 0>>

\* a step that the clamp has cut to max_step_px
C8_Witness ==
    /\ active = "online"
    /\ mcall.moved # <<>>
    /\ mcall.moved[1] = ControllerConfig.max_step_px

\* C9 as stated: a processed sample whose deviation on an axis is inside the dead
\* zone moves the cursor by 0 on that axis, whatever the stored velocity.
C9_AsStated ==
    \A i \in {1, 2} :
        mcall.stage \in Processed /\ Abs(mcall.dev[i]) < DeadZone => AxisMove(i) = 0

\* C9: a processed sample whose deviation on an axis is inside the dead zone
\* moves the cursor by 0 on that axis when the velocity stored for that axis
\* before the call is 0.
C9_DeadZone ==
    \A i \in {1, 2} :
        (/\ mcall.stage \in Processed
         /\ Abs(mcall.dev[i]) < DeadZone
         /\ mcall.pre_v[i] = 0) => AxisMove(i) = 0

\* a sample off the baseline but inside the dead zone on one axis is shaped and
\* the cursor moves on the other axis only
C9_Witness ==
    /\ active = "online"
    /\ mcall.stage = "shaped"
    /\ mcall.dev[1] # 0
    /\ Abs(mcall.dev[1]) < DeadZone
    /\ mcall.pre_v[1] = 0
    /\ mcall.moved # <<>>
    /\ mcall.moved[1] = 0

\* C10 as stated: once the raw samples have stayed within still_eps of each other
\* for still_timeout, the stored velocity is 0 on both axes after as many further
\* samples as the brake needs for the velocity held at that moment, and remains
\* 0 while the stillness lasts.
C10_StillnessStops ==
    mon.quiet >= 1 /\ mon.quiet >= mon.budget => Velocity = <<0, 0>>

\* ---------------------------------------------------------------- rate limit

\* C11: a call made after the lock and less than update_interval after the last
\* stored update time changes nothing in the controller (velocity, baseline,
\* last raw sample, stillness timer, update time) and calls no moveRel.
C11_RateLimitedDropped ==
    [][(/\ Controller.accum_count >= ControllerConfig.neutral_samples
        /\ clock' - Controller.last_update_ts < ControllerConfig.update_interval_sec)
           => (/\ mems' = mems /\ online' = online /\ gyro' = gyro
               /\ mcall'.moved = <<>>)]_vars

\* a valid packet is dropped by the rate limit while the cursor is moving
C11_Witness ==
    /\ active = "online"
    /\ mcall.stage = "rate"
    /\ Velocity # <<0, 0>>
    /\ clock - Controller.last_update_ts < ControllerConfig.update_interval_sec

\* C12 as stated: any two calls that change the controller, calibration samples
\* included, are at least update_interval apart.
C12_AsStated ==
    [][(Controller' # Controller /\ mon.changed_at # 0)
           => clock' - mon.changed_at >= ControllerConfig.update_interval_sec]_vars

\* C12: any two calls that change the controller after the lock are at least
\* update_interval apart, and moveRel is called only by such a call; calibration
\* samples are accumulated as fast as they arrive.
C12_ShapingSpaced ==
    [][/\ mcall'.moved # <<>>
            => /\ Controller' # Controller
               /\ Controller.accum_count >= ControllerConfig.neutral_samples
       /\ (/\ Controller' # Controller
           /\ Controller.accum_count >= ControllerConfig.neutral_samples
           /\ mon.changed_locked)
            => clock' - mon.changed_at >= ControllerConfig.update_interval_sec]_vars

\* the cursor is moved by the third call after the lock, after an earlier
\* shaping call
C12_Witness ==
    /\ active = "mems"
    /\ mcall.stage = "shaped"
    /\ mcall.moved # <<>>
    /\ mcall.pre_v # <<0, 0>>
    /\ mon.changed_at = clock
    /\ mon.n = ControllerConfig.neutral_samples + 3

\* ---------------------------------------------------------------- dropped packets

\* C13: a packet with NaN or Infinity in any channel of its last element changes
\* nothing in the controller (calibration count and sums, baseline, stored
\* gyroscope neutral, velocity) and calls no moveRel.
C13_NonFiniteDropped ==
    [][mcall'.input = "nonfinite"
           => /\ mems' = mems /\ online' = online /\ gyro' = gyro
              /\ mcall'.moved = <<>>]_vars

\* C14: an empty packet, or one whose last element lacks the accelerometer or
\* the gyroscope reading, changes nothing in the controller and calls no moveRel;
\* a missing gyroscope reading is not processed as a reading of zero.
C14_MalformedSkipped ==
    [][mcall'.input \in {"empty", "malformed"}
           => /\ mems' = mems /\ online' = online /\ gyro' = gyro
              /\ mcall'.moved = <<>>]_vars

\* ---------------------------------------------------------------- gates of the gyroscope controllers

\* C15: a gyroscope controller that has been given N calibration samples
\* gx = 1.0, gz = 2.0 has the baseline (1.0, 2.0), and while every further valid
\* sample is gx = 1.0, gz = 2.0 each processed one has deviation zero, the
\* velocity stays zero and moveRel is not called.
C15_RestScenario ==
    (/\ active \in {"online", "gyro"}
     /\ mon.rest_run
     /\ Controller.accum_count = ControllerConfig.neutral_samples)
        => /\ Baseline = RestSample
           /\ Velocity = <<0, 0>>
           /\ mcall.moved = <<>>
           /\ mcall.stage \in Processed => mcall.dev = <<0, 0>>

\* the second sample after the lock is taken by the centring gate
C15_Witness ==
    /\ active = "online"
    /\ mon.rest_run
    /\ mcall.stage = "center"
    /\ mon.have_prev
    /\ mon.since # 0

\* the brake of the stillness gate and of the centring gate of the gyroscope
\* controller of the run
StillBrake == IF active = "gyro" THEN GyroStillBrake ELSE OnlineStillBrake

CenterBrake == IF active = "gyro" THEN GyroCenterBrake ELSE OnlineCenterBrake

\* a processed sample of a gyroscope controller whose deviation is below
\* center_eps on both axes
CenterCase ==
    /\ active \in {"online", "gyro"}
    /\ mcall.stage \in Processed
    /\ Abs(mcall.dev[1]) < ControllerConfig.center_eps_deg
    /\ Abs(mcall.dev[2]) < ControllerConfig.center_eps_deg

\* such a sample leaves the velocity of each axis at zero if it was zero and
\* smaller in magnitude if not
CenterDecays ==
    CenterCase
        => \A i \in {1, 2} :
               IF mcall.pre_v[i] = 0 THEN Velocity[i] = 0
               ELSE Abs(Velocity[i]) < Abs(mcall.pre_v[i])

NearWindow ==
    IF active \in {"online", "gyro"} THEN ControllerConfig.center_eps_deg
    ELSE ControllerConfig.center_window_g

\* C17: after the lock, a call that processes a sample whose deviation is inside
\* the near-neutral window on both axes moves the baseline of both axes to
\* (1 - r) * baseline + r * sample with r = recenter_alpha, in every controller
\* that has the setting, and every other call leaves the baseline as it is.
C17_BaselineRecenters ==
    [][Controller.accum_count >= ControllerConfig.neutral_samples
           => IF /\ mcall'.stage \in Processed
                 /\ Abs(mcall'.dev[1]) < NearWindow
                 /\ Abs(mcall'.dev[2]) < NearWindow
              THEN \A i \in {1, 2} :
                       Baseline'[i] = Blend(Baseline[i], mon'.prev[i],
                                            ControllerConfig.recenter_alpha, 1000)
              ELSE Baseline' = Baseline]_vars

\* ---------------------------------------------------------------- claim C18

RaisedOps == {"signal_raised", "envelope_raised"}

\* the detector fields the next call is classified from
ClassifierState == <<last_click_ts, is_dragging>>

\* the fields a handler leaves when its pyautogui call returns without effect
AfterNoOp ==
    LET h == IF call.op = "envelope_raised"
             THEN envelope_click(config, call.pre_ts, call.pre_drag, call.amp, clock)
             ELSE IF config.use_duration_detection
             THEN handle_duration_based_click(config, call.pre_ts, call.pre_drag,
                                              call.amp, clock)
             ELSE handle_simple_click(config, call.pre_ts, call.pre_drag, call.amp,
                                      clock)
    IN <<h.last_click_ts, h.is_dragging>>

C19_FaultsContained ==
    /\ ~dash.escaped
    /\ dash.last.raised # "none" => dash.last.by \in {"handler", "callback"}

\* the pointer injection of the detector raised in one delivery, and the packet
\* delivered next, a MEMS packet, went through the controller into the buffers
C19_Witness ==
    /\ active = "dashboard"
    /\ dash.n = 2
    /\ raises = 1
    /\ call.op = "signal_raised"
    /\ dash.last = Delivery("mems", "none", "none")
    /\ online.accum_count = 1
    /\ Len(dash.gyr) = 1

\* the thresholds of a configuration, as (left, right, hold)
ThresholdsOf(cfg) == <<cfg.left_threshold, cfg.right_threshold, cfg.hold_threshold>>

\* the load did not get three numbers out of the file
LoadFailed(f) ==
    \/ f.kind # "object"
    \/ \E k \in ThresholdKeys : f.obj[k].kind = "bad"

\* C20: a load of the persisted thresholds that fails (file missing, unreadable
\* or of invalid content) does not raise and returns the left, right and hold
\* values of a default-constructed MuscleClickConfig, and a key missing from a
\* valid file gets that same default.
C20_FallbackIsConfigDefault ==
    dash.loaded =>
        /\ ~dash.load_raised
        /\ LoadFailed(dash.file) => ThresholdsOf(config) = ThresholdsOf(MuscleClickConfig)
        /\ ~LoadFailed(dash.file) =>
               \A k \in ThresholdKeys :
                   config[k] = IF dash.file.obj[k].kind = "absent"
                               THEN MuscleClickConfig[k]
                               ELSE dash.file.obj[k].v

\* ---------------------------------------------------------------- claim C21

\* C21: after _save_thresholds_to_code has written a triple (left, right, hold),
\* _load_saved_thresholds returns that triple, whatever was saved before it (the
\* last save alone decides: the file is the one a single save of the triple
\* leaves).
C21_RoundTrip ==
    dash.saved # <<>> =>
        /\ load_saved_thresholds(dash.file) = Returned(dash.saved)
        /\ dash.file = save_file(dash.file, dash.saved, "written")

\* a second save replaced the first, the program was started again and loaded
\* the triple of the second save, which is no default
C21_Witness ==
    /\ dash.restarted
    /\ dash.loaded
    /\ dash.saved = <<300, 600, 900>>
    /\ ThresholdsOf(config) = <<300, 600, 900>>

\* ---------------------------------------------------------------- claim C22

\* update_mems of the controller of the run on a batch, at the time now
UpdateOf(data, now) ==
    IF active = "online"
    THEN gyro_online_update_mems(GyroMouseOnlineConfig, online, data, now)
    ELSE IF active = "gyro" THEN gyro_update_mems(GyroMouseConfig, gyro, data, now)
    ELSE mems_update_mems(MemsConfigOf(active), mems, data, now)

\* the batches of more than one element the controller of the run is given
LongBatches ==
    { b \in IF active \in {"online", "gyro"} THEN GyroBatches ELSE MemsBatches :
        Len(b) > 1 }

DelaysOf ==
    IF active = "online" THEN GyroDelays(GyroMouseOnlineConfig)
    ELSE IF active = "gyro" THEN GyroDelays(GyroMouseConfig)
    ELSE Delays(MemsMouseConfig)

\* C22: in every state of every controller, update_mems on a batch of several
\* elements ends in the same branch, leaves the same fields and makes the same
\* moveRel call as update_mems on the batch of its last element alone.
C22_LastElement ==
    \A data \in LongBatches, d \in DelaysOf :
        LET whole == UpdateOf(data, clock + d)
            last == UpdateOf(<<data[Len(data)]>>, clock + d)
        IN /\ whole.s = last.s
           /\ whole.stage = last.stage
           /\ whole.moved = last.moved

\* a locked controller took a batch of two elements and moved the pointer, and
\* the first element of the batch, taken alone, would do otherwise from here
C22_Witness ==
    /\ mcall.len = 2
    /\ mcall.stage = "shaped"
    /\ mcall.moved # <<>>
    /\ \E data \in LongBatches, d \in DelaysOf :
           UpdateOf(<<data[1]>>, clock + d).s # UpdateOf(data, clock + d).s

\* ---------------------------------------------------------------- claim C23

\* the action of impulse mode for one call: right before left, behind the cooldown
ImpulseAction(cfg, a, elapsed) ==
    IF ~elapsed THEN <<>>
    ELSE IF a >= cfg.right_threshold THEN <<"RightClick">>
    ELSE IF a >= cfg.left_threshold THEN <<"LeftClick">>
    ELSE <<>>

\* C23: a detector in impulse mode (use_duration_detection = False) never emits
\* DragStart or DragEnd and never changes the dragging flag, whatever the
\* amplitude and the hold threshold; an update_from_signal call with the cooldown
\* elapsed emits RightClick when the amplitude reaches right_threshold, otherwise
\* LeftClick when it reaches left_threshold, otherwise nothing.
C23_ImpulseMode ==
    ~config.use_duration_detection =>
        /\ ~is_dragging
        /\ DragEvents = <<>>
        /\ call.op = "signal" =>
               call.acts = ImpulseAction(config, call.amp,
                                         clock - call.pre_ts >= config.cooldown_sec)

\* in impulse mode an amplitude above the hold threshold gave a right click
C23_Witness ==
    /\ ~config.use_duration_detection
    /\ call.op = "signal"
    /\ call.amp >= config.hold_threshold
    /\ config.hold_threshold > config.right_threshold
    /\ call.acts = <<"RightClick">>
    /\ Len(emitted) >= 1

\* ---------------------------------------------------------------- claim C24

\* update_mems of the gyroscope controller of the run, from the fields s
UpdateFrom(s, data, now) ==
    IF active = "online" THEN gyro_online_update_mems(GyroMouseOnlineConfig, s, data, now)
    ELSE gyro_update_mems(GyroMouseConfig, s, data, now)

\* the fields of a controller but for the EMG ones
NoEmg(s) == [s EXCEPT !.emg_smooth = 0, !.emg_active = FALSE]

\* the EMG fields other envelope sequences leave: untouched, below and above the gate
EmgStates == {<<0, FALSE>>, <<4000, FALSE>>, <<6400, TRUE>>}

\* C24: the EMG gate is off. From every reachable state of a gyroscope
\* controller, update_mems does the same with any other EMG fields in place of
\* the controller's (same branch, same moveRel call, same calibration and
\* velocity fields after it) and leaves the EMG fields as they were, and
\* update_emg changes the EMG fields only; so two runs given the same packets at
\* the same times and different envelopes move the pointer alike and end in the
\* same calibration and velocity.
C24_EmgIgnored ==
    active \in {"online", "gyro"} =>
        /\ \A data \in EmgBatches, e \in EmgStates :
               LET d == ControllerConfig.update_interval_sec
                   a == UpdateFrom(Controller, data, clock + d)
                   b == UpdateFrom([Controller EXCEPT !.emg_smooth = e[1],
                                                      !.emg_active = e[2]],
                                   data, clock + d)
               IN /\ a.stage = b.stage
                  /\ a.moved = b.moved
                  /\ NoEmg(a.s) = NoEmg(b.s)
                  /\ a.s.emg_smooth = Controller.emg_smooth
                  /\ a.s.emg_active = Controller.emg_active
        /\ \A v \in EmgEnvelopes :
               NoEmg(update_emg(ControllerConfig, Controller, v)) = NoEmg(Controller)

\* the activation is below the gate after an envelope, and the controller has
\* moved the pointer all the same
C24_Witness ==
    /\ active \in {"online", "gyro"}
    /\ Controller.emg_smooth > 0
    /\ ~Controller.emg_active
    /\ mcall.stage = "shaped"
    /\ mcall.moved # <<>>
    /\ Controller.last_update_ts = clock

\* ---------------------------------------------------------------- claim C25

\* the positions of a thread inside a with block
InLock == {"locked", "locked_update"}

\* the display buffers
Buffers(d) == <<d.emg_env, d.emg_sig, d.acc, d.gyr>>

\* C25: with the three callbacks and the plot timer on threads of their own, in
\* any interleaving: no field of the controller or of the classifier is written
\* by two threads; the plot timer writes none of them, and what it plots is the
\* content of the display buffers when it copied them, whatever the controller
\* and the classifier hold; every access to a display buffer is by the thread
\* that holds the lock, which one thread holds at a time; and no buffer holds
\* more than 1000 entries.
C25_ThreadSafety ==
    [][ /\ \A t, u \in Threads : t # u => dash.wrote[t] \cap dash.wrote[u] = {}
        /\ dash.wrote["plot"] = {}
        /\ (dash.pc["plot"] = "locked" /\ dash'.pc["plot"] = "draw") =>
               /\ dash'.plotted = [emg_env |-> dash.emg_env, emg_sig |-> dash.emg_sig,
                                   acc |-> dash.acc, gyr |-> dash.gyr]
               /\ UNCHANGED <<online, clickVars>>
        /\ dash'.access.by = dash'.access.holder
        /\ \A t, u \in Threads :
               dash'.pc[t] \in InLock /\ dash'.pc[u] \in InLock => t = u
        /\ \A i \in 1..4 : Len(Buffers(dash')[i]) <= 1000 ]_vars

\* the envelope and the MEMS thread have both written to the controller and
\* the signal thread to the classifier, the plot timer has copied the buffers behind the lock, and the full envelope
\* buffer has taken one value more
C25_Witness ==
    /\ active = "threads"
    /\ dash.wrote["mems"] # {}
    /\ dash.wrote["envelope"] # {}
    /\ dash.wrote["signal"] # {}
    /\ dash.access = [by |-> "plot", holder |-> "plot"]
    /\ Len(dash.emg_env) = 1000
    /\ dash.emg_env[1000] = 10000000
    /\ dash.plotted.emg_env = dash.emg_env

\* ---------------------------------------------------------------- claim C26

\* C26 as stated, for every controller: the stillness branch brakes and returns
\* only in a step whose sample and all processed samples since the timer started
\* changed by less than still_eps, the timer having started in an earlier step.
C26_AsStated ==
    mcall.stage = "still" => mon.timed_out /\ mon.timer < clock

\* C26: in the gyroscope controllers the stored timer is the time of the first
\* sample of the current run of processed samples that each changed by less than
\* still_eps on both axes, and 0 after a sample that changed by more; a processed
\* sample takes the stillness branch, which brakes the velocity and calls no
\* moveRel, exactly when the run has lasted still_timeout, and goes to the
\* centring gate and the shaping otherwise. MemsMouseMode keeps no timer: its
\* stillness branch returns only on a sample that changed by less than
\* still_eps_g, and does so without any time having passed.
C26_StillnessGate ==
    /\ active \in {"online", "gyro"} =>
          /\ Controller.still_since = mon.timer
          /\ mcall.stage \in Processed =>
                /\ mcall.stage = "still" <=> mon.timed_out
                /\ mon.timed_out =>
                      /\ clock - mon.timer >= ControllerConfig.still_timeout_sec
                      /\ mon.timer < clock
                      /\ mcall.moved = <<>>
                      /\ Velocity = <<BrakeBy(mcall.pre_v[1], StillBrake),
                                      BrakeBy(mcall.pre_v[2], StillBrake)>>
                /\ ~mon.timed_out => mcall.stage \in {"center", "shaped"}
    /\ active \in {"mems", "mems_swapped"} /\ mcall.stage = "still" =>
          mon.timed_out /\ mcall.moved = <<>>

\* a gyroscope controller brakes a moving pointer after the timeout
C26_Witness ==
    /\ active \in {"online", "gyro"}
    /\ mcall.stage = "still"
    /\ mcall.pre_v # <<0, 0>>
    /\ mon.timer # 0
    /\ clock - mon.timer >= ControllerConfig.still_timeout_sec

\* ---------------------------------------------------------------- claim C27

\* a deviation after the dead zone
DeadZoned(v, dz) == IF Abs(v) < dz THEN 0 ELSE v

\* the shaped input of the smoothing of the last call, on axis i: the dead-zoned
\* deviation, in MemsMouseMode taken from the re-centred baseline and curved
ShapedInput(i) ==
    IF active \in {"online", "gyro"}
    THEN DeadZoned(mcall.dev[i], ControllerConfig.deadzone_deg)
    ELSE LET d == IF i = 1 THEN mems.last_ax - mems.neutral_x
                  ELSE mems.last_ay - mems.neutral_y
         IN mems_joystick_curve(DeadZoned(d, ControllerConfig.deadzone_g),
                                ControllerConfig.deadzone_g)

\* the velocity that enters the smoothing of the last call, on axis i: the
\* velocity stored before the call, braked where the call came to the smoothing
\* out of the stillness branch of MemsMouseMode or out of the centring gate of
\* GyroMouseMode
SmoothedFrom(i) ==
    IF active \in {"mems", "mems_swapped"} /\ mon.timed_out
    THEN Brake(mcall.pre_v[i], 3, 10, ControllerConfig.deadzone_g \div 2)
    ELSE IF /\ active = "gyro"
            /\ Abs(mcall.dev[1]) < ControllerConfig.center_eps_deg
            /\ Abs(mcall.dev[2]) < ControllerConfig.center_eps_deg
    THEN BrakeBy(mcall.pre_v[i], GyroCenterBrake)
    ELSE mcall.pre_v[i]

\* C27 as stated: after a call that reaches the smoothing, the stored velocity
\* on each axis is (1 - smooth_alpha) times the velocity stored before the call
\* plus smooth_alpha times the shaped input, and nothing else.
C27_AsStated ==
    mcall.stage = "shaped" =>
        \A i \in 1..2 :
            Velocity[i] = Blend(mcall.pre_v[i], ShapedInput(i),
                                ControllerConfig.smooth_alpha, 100)

\* C27: after a call that reaches the smoothing, the stored velocity on each
\* axis is the average (1 - smooth_alpha) * v + smooth_alpha * shaped input of
\* the velocity v that entered the smoothing, which GyroMouseOnlineMode then
\* multiplies by 0.95; v is the velocity stored before the call, but for the
\* calls that come out of a brake of the same call.
C27_Smoothing ==
    mcall.stage = "shaped" =>
        \A i \in 1..2 :
            LET average == Blend(SmoothedFrom(i), ShapedInput(i),
                                 ControllerConfig.smooth_alpha, 100)
            IN Velocity[i] = IF active = "online" THEN Scale(average, 95, 100)
                             ELSE average

\* GyroMouseOnlineMode has smoothed a moving pointer towards a deviation outside
\* the dead zone, and stored less than the average
C27_Witness ==
    /\ active = "online"
    /\ mcall.stage = "shaped"
    /\ mcall.pre_v[2] # 0
    /\ ShapedInput(2) # 0
    /\ Velocity[2] # Blend(mcall.pre_v[2], ShapedInput(2),
                           ControllerConfig.smooth_alpha, 100)

\* ---------------------------------------------------------------- claim C28

\* the component of the last moveRel call that comes from the velocity on axis
\* i, 0 without a call (MemsMouseMode swaps the axes on request)
EmittedFrom(i) ==
    IF mcall.moved = <<>> THEN 0
    ELSE mcall.moved[IF mcall.swapped THEN 3 - i ELSE i]

\* the smoothed velocity on axis i is more than 1.5 times that on the other axis
Dominates(i) == 2 * Abs(Velocity[i]) > 3 * Abs(Velocity[3 - i])

\* C28 as stated: no controller moves the pointer on both axes when the smoothed
\* velocity of one axis is more than 1.5 times that of the other; the weaker
\* axis is emitted as 0.
C28_AsStated ==
    mcall.stage = "shaped" =>
        \A i \in 1..2 : Dominates(i) => EmittedFrom(3 - i) = 0

\* C28: MemsMouseMode emits 0 on the weaker axis and the dominant axis alone
\* when the smoothed velocity of one axis is more than 1.5 times that of the
\* other, and both axes as they are otherwise; the gyroscope controllers have
\* no such step and move the pointer on every axis whose velocity is not 0.
C28_AxisDominance ==
    mcall.stage = "shaped" =>
        \A i \in 1..2 :
            IF active \in {"mems", "mems_swapped"} /\ Dominates(3 - i)
            THEN EmittedFrom(i) = 0 /\ EmittedFrom(3 - i) # 0
            ELSE EmittedFrom(i) = 0 <=> Velocity[i] = 0

\* MemsMouseMode holds a velocity on both axes and moves the pointer on the
\* dominant one only
C28_Witness ==
    /\ active \in {"mems", "mems_swapped"}
    /\ mcall.stage = "shaped"
    /\ Velocity[1] # 0 /\ Velocity[2] # 0
    /\ \E i \in 1..2 : Dominates(i) /\ EmittedFrom(3 - i) = 0 /\ EmittedFrom(i) # 0

\* ---------------------------------------------------------------- claim C29

\* C29: after every call of update_emg or update_mems on a gyroscope
\* controller the active flag is (smoothed activation >= emg_threshold);
\* update_emg (the calls that take no time) stores (1 - emg_smooth_alpha) *
\* previous + emg_smooth_alpha * envelope as the smoothed activation, and
\* update_mems changes neither value.
C29_ActiveFlag ==
    [][ /\ Controller'.emg_active =
              (Controller'.emg_smooth >= ControllerConfig.emg_threshold)
        /\ mon'.n = mon.n + 1 =>
              IF clock' = clock
              THEN \E v \in EmgEnvelopes :
                      Controller'.emg_smooth =
                          Blend(Controller.emg_smooth, RoundDiv(v, 1000),
                                ControllerConfig.emg_smooth_alpha, 100)
              ELSE /\ Controller'.emg_smooth = Controller.emg_smooth
                   /\ Controller'.emg_active = Controller.emg_active ]_vars

\* the flag is set, and update_mems has moved the pointer since
C29_Witness ==
    /\ active \in {"online", "gyro"}
    /\ Controller.emg_active
    /\ Controller.emg_smooth >= ControllerConfig.emg_threshold
    /\ mcall.stage = "shaped"
    /\ mcall.moved # <<>>

\* ---------------------------------------------------------------- claim C30

\* the last n elements of a sequence
LastOf(q, n) == IF Len(q) <= n THEN q ELSE SubSeq(q, Len(q) - n + 1, Len(q))

\* C30: the buffer never holds more than 10 amplitudes; a call of
\* update_from_signal on a batch with samples (the dashboard plots its maximum
\* after the call) leaves in the buffer the last 10 of the amplitudes the buffer
\* held followed by the amplitude of the call, in that order; and the action of
\* the call is the one the handler gives for the amplitude, the thresholds, the
\* time of the last click, the drag flag and the time, whatever the buffer
\* holds.
C30_Buffer ==
    [][ /\ Len(muscle_buffer') <= 10
        /\ Len(dash'.emg_sig) = Len(dash.emg_sig) + 1 =>
              /\ muscle_buffer' = LastOf(Append(muscle_buffer, call'.amp), 10)
              /\ call'.acts =
                    (IF config.use_duration_detection
                     THEN handle_duration_based_click(config, last_click_ts, is_dragging,
                                                      call'.amp, clock)
                     ELSE handle_simple_click(config, last_click_ts, is_dragging,
                                              call'.amp, clock)).acts ]_vars

\* a full buffer has taken the amplitude of a signal that made the detector
\* act, and has lost its oldest amplitude
C30_Witness ==
    /\ Len(muscle_buffer) = 10
    /\ muscle_buffer[1] = 102
    /\ muscle_buffer[10] = call.amp
    /\ call.acts # <<>>
    /\ emitted # <<>>

\* ---------------------------------------------------------------- claim C31

\* the running sums of the calibration, in the order of the baseline
Sums(s) ==
    IF active \in {"online", "gyro"} THEN <<s.accum_gx, s.accum_gz>>
    ELSE <<s.accum_x, s.accum_y, s.accum_z>>

\* the baseline held in the fields s
BaselineOf(s) ==
    IF active \in {"online", "gyro"} THEN <<s.neutral_gx, s.neutral_gz>>
    ELSE <<s.neutral_x, s.neutral_y, s.neutral_z>>

\* C31: the count of calibration samples stays between 0 and neutral_samples and
\* grows by at most 1 in a call; while it is below neutral_samples the baseline
\* is the initial one; the call that takes it to neutral_samples sets the
\* baseline to the mean of the sums; and from then on neither the count nor the
\* sums change.
C31_LocksOnce ==
    [][ LET n == ControllerConfig.neutral_samples
            s == Controller
            t == Controller'
        IN /\ 0 <= t.accum_count /\ t.accum_count <= n
           /\ s.accum_count <= t.accum_count /\ t.accum_count <= s.accum_count + 1
           /\ t.accum_count < n => \A i \in DOMAIN BaselineOf(t) : BaselineOf(t)[i] = 0
           /\ (s.accum_count < n /\ t.accum_count = n) =>
                 /\ mcall'.stage = "locked"
                 /\ \A i \in DOMAIN BaselineOf(t) : BaselineOf(t)[i] = Quot(Sums(t)[i], n)
           /\ s.accum_count = n =>
                 /\ t.accum_count = n
                 /\ Sums(t) = Sums(s)
                 /\ mcall'.stage # "locked" ]_vars

\* a locked controller with sums that are not 0 has shaped a packet, and holds
\* the count and a baseline that is not 0
C31_Witness ==
    /\ Controller.accum_count = ControllerConfig.neutral_samples
    /\ \E i \in DOMAIN Sums(Controller) : Sums(Controller)[i] # 0
    /\ \E i \in DOMAIN Baseline : Baseline[i] # 0
    /\ mcall.stage = "shaped"
    /\ mcall.moved # <<>>

\* ---------------------------------------------------------------- claim C32

\* the sensor has turned after the baseline was locked
Turned ==
    /\ active = "stream"
    /\ online.accum_count = GyroMouseOnlineConfig.neutral_samples
    /\ mon.sent \in {<<t[1], t[3]>> : t \in StreamTurned}

\* C32: once the sensor has turned by more than 5 deg/s on an axis and keeps
\* sending the new rates less than 10 ms and at least update_interval apart, a
\* packet gets past the fast-change filter at last.
C32_NoStarvation ==
    Turned ~> (Turned /\ mcall.stage \in Processed)

\* ---------------------------------------------------------------- claim C33

\* the actions a step has added to the emitted ones
NewActs ==
    {emitted'[i].act : i \in (Len(emitted) + 1)..Len(emitted')}

\* C33: while the dragging flag is set, no call of update_from_signal or
\* update_from_envelope emits a LeftClick or a RightClick.
C33_NoClickWhileDragging ==
    [][ is_dragging => NewActs \cap {"LeftClick", "RightClick"} = {} ]_vars

\* ---------------------------------------------------------------- claim C34

\* the amplitude of the call a step makes lies in [lo, hi)
AmpIn(lo, hi) ==
    lo <= call'.amp /\ call'.amp < hi

\* the claim as worded, for every call of a detector in duration mode: a
\* LeftClick only for left_threshold <= a < min(right_threshold, hold_threshold)
C34_AsStated ==
    [][ (config.use_duration_detection /\ "LeftClick" \in NewActs) =>
            /\ AmpIn(config.left_threshold, config.right_threshold)
            /\ AmpIn(config.left_threshold, config.hold_threshold) ]_vars

\* C34: in duration mode update_from_signal emits RightClick only for
\* right_threshold <= a < hold_threshold and LeftClick only for
\* left_threshold <= a < min(right_threshold, hold_threshold), so it emits no
\* RightClick when hold_threshold <= right_threshold and no LeftClick when
\* right_threshold <= left_threshold; update_from_envelope emits no RightClick, and
\* a LeftClick for every amplitude a >= left_threshold.
C34_DurationRanges ==
    [][ config.use_duration_detection =>
          /\ "RightClick" \in NewActs =>
                /\ call'.op = "signal"
                /\ AmpIn(config.right_threshold, config.hold_threshold)
                /\ config.right_threshold < config.hold_threshold
          /\ ("LeftClick" \in NewActs /\ call'.op = "signal") =>
                /\ AmpIn(config.left_threshold, config.right_threshold)
                /\ AmpIn(config.left_threshold, config.hold_threshold)
                /\ config.left_threshold < config.right_threshold
          /\ ("LeftClick" \in NewActs /\ call'.op = "envelope") =>
                call'.amp >= config.left_threshold ]_vars

\* the detector built from the dashboard's fallback thresholds has emitted a
\* RightClick for an amplitude below its left threshold
C34_Witness ==
    /\ config.use_duration_detection
    /\ config.right_threshold <= config.left_threshold
    /\ call.op = "signal"
    /\ call.amp >= config.right_threshold
    /\ call.amp < config.left_threshold
    /\ emitted # <<>>
    /\ emitted[Len(emitted)].act = "RightClick"

\* ---------------------------------------------------------------- claim C35

\* the element e carries a finite gyroscope vector
HasGyro(e) ==
    e.has_gyr /\ e.nonfinite \cap {"gx", "gy", "gz"} = {}

\* the square of the Euclidean distance of two gyroscope vectors
SqDist(a, b) ==
    (a[1] - b[1]) * (a[1] - b[1]) + (a[2] - b[2]) * (a[2] - b[2])
        + (a[3] - b[3]) * (a[3] - b[3])

\* the gyroscope vector of e is less than gyro_neutral_eps away from the finite
\* reading g stored at the lock
GyroWithin(c, e, g) ==
    /\ HasGyro(e)
    /\ g.set /\ g.nonfinite = {}
    /\ SqDist(e.gyr, g.gyr) < c.gyro_neutral_eps * c.gyro_neutral_eps

\* C35: MemsMouseMode stores the gyroscope vector of the N-th calibration sample
\* and keeps it; every valid packet taken after the lock and past the rate limit
\* whose gyroscope vector is less than gyro_neutral_eps away from it sets the
\* velocity to 0 on both axes and calls no moveRel, whatever its acceleration.
C35_GyroNeutralGate ==
    [][ (active \in {"mems", "mems_swapped"}) =>
          /\ (mcall'.stage = "locked" /\ HasGyro(mon'.sent)) =>
                /\ mems'.neutral_g.set /\ mems'.neutral_g.nonfinite = {}
                /\ mems'.neutral_g.gyr = mon'.sent.gyr
          /\ mems.accum_count = MemsConfigOf(active).neutral_samples =>
                mems'.neutral_g = mems.neutral_g
          /\ (/\ mcall'.stage \in Processed
              /\ GyroWithin(MemsConfigOf(active), mon'.sent, mems.neutral_g)) =>
                /\ mcall'.stage = "gyro_neutral"
                /\ mcall'.moved = <<>>
                /\ mems'.vx_g = 0 /\ mems'.vy_g = 0 ]_vars

\* a moving controller is stopped by a packet with the gyroscope vector of the
\* lock and an acceleration far outside the dead zone
C35_Witness ==
    /\ active \in {"mems", "mems_swapped"}
    /\ mcall.stage = "gyro_neutral"
    /\ GyroWithin(MemsConfigOf(active), mon.sent, mems.neutral_g)
    /\ mcall.pre_v # <<0, 0>>
    /\ \E i \in 1..2 : Abs(mcall.dev[i]) > MemsConfigOf(active).deadzone_g
    /\ mems.vx_g = 0 /\ mems.vy_g = 0

\* ---------------------------------------------------------------- claim C36

\* the uncalibrated controller of the run and its stored baseline
Uncal ==
    CASE active = "mems0" -> mems [] active = "online0" -> online [] OTHER -> gyro

UncalBaseline ==
    IF active = "mems0" THEN <<mems.neutral_x, mems.neutral_y, mems.neutral_z>>
    ELSE <<Uncal.neutral_gx, Uncal.neutral_gz>>

ZeroBaseline ==
    \A i \in DOMAIN UncalBaseline : UncalBaseline[i] = 0

\* the claim as worded, for each of the three controllers: the baseline stays
\* at its initial 0 on every axis
C36_AsStated ==
    active \in {"mems0", "online0", "gyro0"} => ZeroBaseline

\* C36: a controller built with neutral_samples = 0 never takes a calibration
\* sample (the count stays 0 and no call ends in the calibration branch), so the
\* baseline is never set from samples: in GyroMouseOnlineMode it stays 0 on both
\* axes, in the other two only the re-centring of a processed packet moves it;
\* the first valid packet is processed against the baseline 0.
C36_NeverCalibrates ==
    [][ (active \in {"mems0", "online0", "gyro0"}) =>
          /\ Uncal.accum_count = 0
          /\ mcall'.stage \notin {"calib", "locked"}
          /\ (active = "online0") => ZeroBaseline'
          /\ ZeroBaseline' \/ mcall'.stage \in Processed \/ ~ZeroBaseline
          /\ (accepted = <<>> /\ accepted' # <<>>) =>
                /\ ZeroBaseline
                /\ mcall'.stage \in Processed ]_vars

\* the first valid packet given to an uncalibrated GyroMouseOnlineMode has moved
\* the cursor
C36_Witness ==
    /\ active = "online0"
    /\ Len(accepted) = 1
    /\ mcall.stage = "shaped"
    /\ mcall.moved # <<>>
    /\ online.accum_count = 0
    /\ ZeroBaseline

\* ---------------------------------------------------------------- claim C37

\* the token was issued by register or login no more than 30 days ago, to a
\* user that has not been deleted
Live(b, token, ttl) ==
    \E i \in b.issued :
        /\ i.token = token
        /\ i.user \notin b.deleted
        /\ b.utc < i.at + ttl

\* C37: after any sequence of register, login, logout and admin deletion, a
\* bearer token authenticates exactly when it was issued by register or login,
\* its user still exists, it was issued less than 30 days ago and it was never
\* passed to logout.
C37_TokenLifecycle ==
    active = "backend" =>
        \A token \in Presented(backend) :
            get_current_user(backend, token)
                <=> (Live(backend, token, TokenTtl) /\ token \notin backend.logged_out)

\* the same with the 30 days counted as the code counts them, from the
\* server's local time against the database's UTC clock
C37_StoredExpiry ==
    active = "backend" =>
        \A token \in Presented(backend) :
            get_current_user(backend, token)
                <=> (/\ Live(backend, token, TokenTtl + backend.offset)
                     /\ token \notin backend.logged_out)

\* ---------------------------------------------------------------- claim C38

\* the requests for email e that were answered with a token
Registered(e) ==
    { t \in Requests : backend.email[t] = e /\ backend.pc[t] = "200" }

\* C38: however concurrent register requests for one email interleave, the
\* table users holds at most one row with that email and at most one of the
\* requests is answered with a token for a newly created user.
C38_OneRegistration ==
    active = "register" =>
        \A e \in RegisterEmails :
            /\ Cardinality({ u \in backend.users : u.email = e }) <= 1
            /\ Cardinality(Registered(e)) <= 1
            /\ \A t \in Registered(e) :
                   \E u \in backend.users, k \in backend.tokens :
                       /\ u.email = e
                       /\ k.user_id = u.id
                       /\ k.token = backend.returned[t]

\* two requests for one email both found no row; one was answered with a
\* token and the other failed at its INSERT
C38_Witness ==
    /\ active = "register"
    /\ \E t1, t2 \in Requests :
          /\ t1 # t2
          /\ backend.email[t1] = backend.email[t2]
          /\ backend.pc[t1] = "200"
          /\ backend.pc[t2] = "500"

====
